---- MODULE Spec2Model ----
(***************************************************************************)
(* A model of py-reports: the pivot transformer, the query assembler       *)
(* (_substitute_parameters), the parameter validator                       *)
(* (validate_parameters), the table transformer, the subreport processor,  *)
(* generate_report with the MongoDBClient it shares, and the generator of  *)
(* the REST API.                                                           *)
(*                                                                         *)
(* The transformers are pure functions of their inputs: each has its own   *)
(* specification whose initial states draw the inputs from bounded sets    *)
(* and whose action applies the function as the code computes it.  The     *)
(* generator, the client and the API are state machines whose steps are    *)
(* the calls the code makes.                                               *)
(***************************************************************************)
EXTENDS Integers, Sequences, FiniteSets, TLC

VARIABLES data, pivot_config, pivot_result,      \* the pivot transformer
          pipeline, parameters, subst_result,    \* the query assembler
          resubst_result,
          parameter_definitions, supplied_parameters,   \* the parameter validator
          validate_result,
          table_data, table_columns, table_result,      \* the table transformer
          sr_configs, sr_context,             \* the subreport processor
          source_connected, source_replies, source_calls,
          subreports_result, subreport_summary,
          gen_config, gen_supplied, gen_pc, gen_error,   \* the requests of generate_report
          gen_outcome, gen_validated, gen_client, gen_sent,
          gen_rendered, gen_subreports,
          client_current, client_connected, clients,     \* the shared MongoDBClient
          client_calls,                       \* the calls made on a MongoDBClient
          api_generator, api_requests         \* the generator of the REST API

pivot_vars == <<data, pivot_config, pivot_result>>

subst_vars == <<pipeline, parameters, subst_result, resubst_result>>

validate_vars == <<parameter_definitions, supplied_parameters, validate_result>>

table_vars == <<table_data, table_columns, table_result>>

subreport_vars == <<sr_configs, sr_context, source_connected, source_replies,
                    source_calls, subreports_result, subreport_summary>>

request_vars == <<gen_config, gen_supplied, gen_pc, gen_error, gen_outcome, gen_validated,
                  gen_client, gen_sent, gen_rendered, gen_subreports>>

client_vars == <<client_current, client_connected, clients>>

generate_vars == <<request_vars, client_vars>>

call_vars == <<client_calls>>

api_vars == <<api_generator, api_requests>>

vars == <<pivot_vars, subst_vars, validate_vars, table_vars, subreport_vars, generate_vars,
          call_vars, api_vars>>

\* the variables a component leaves alone: those of every other component
except_pivot == <<subst_vars, validate_vars, table_vars, subreport_vars, generate_vars,
                  call_vars, api_vars>>

except_subst == <<pivot_vars, validate_vars, table_vars, subreport_vars, generate_vars,
                  call_vars, api_vars>>

except_validate == <<pivot_vars, subst_vars, table_vars, subreport_vars, generate_vars,
                     call_vars, api_vars>>

except_table == <<pivot_vars, subst_vars, validate_vars, subreport_vars, generate_vars,
                  call_vars, api_vars>>

except_subreport == <<pivot_vars, subst_vars, validate_vars, table_vars, generate_vars,
                      call_vars, api_vars>>

except_client == <<pivot_vars, subst_vars, validate_vars, table_vars, subreport_vars,
                   request_vars, api_vars>>

except_api == <<pivot_vars, subst_vars, validate_vars, table_vars, subreport_vars,
                generate_vars, call_vars>>

except_generate == <<pivot_vars, subst_vars, validate_vars, table_vars, subreport_vars,
                     call_vars, api_vars>>

(***************************************************************************)
(* Generic helpers.                                                        *)
(***************************************************************************)
Range(s) == {s[i] : i \in 1..Len(s)}

SeqsUpTo(S, n) == UNION {[1..k -> S] : k \in 0..n}

EmptyMap == <<>>

(***************************************************************************)
(* Dynamically typed values of a raw record.  Python's None, str and       *)
(* int/float are told apart by the tag k; s and n hold the payload.        *)
(***************************************************************************)
None == [k |-> "none", s |-> "", n |-> 0]

Str(x) == [k |-> "str", s |-> x, n |-> 0]

Num(i) == [k |-> "num", s |-> "", n |-> i]

(***************************************************************************)
(* Bounds and input domains of the pivot transformer.                      *)
(***************************************************************************)
MaxRecords == 2

RowDimValues == {Str("X"), Str("Y"), None}

ColDimValues == {Str("P"), Str("Q"), None}

MeasureNumbers == {1, 2}

MeasureValues == {Num(i) : i \in MeasureNumbers} \cup {Str("abc"), None}

MaxColumnsChoices == {0, 1, 2}

MeasureTypes == {"sum", "avg"}

PivotRecords == {r \in [{"a", "b", "v"} -> RowDimValues \cup ColDimValues \cup MeasureValues] :
                    /\ r["a"] \in RowDimValues
                    /\ r["b"] \in ColDimValues
                    /\ r["v"] \in MeasureValues}

PivotConfigs == [rows : {<<"a">>},
                 columns : {<<"b">>},
                 measures : {<<[name |-> "total", field |-> "v", type |-> t]>> : t \in MeasureTypes},
                 show_totals : BOOLEAN,
                 show_grand_total : BOOLEAN,
                 max_columns : MaxColumnsChoices]

\* the measure kinds that accumulate by comparison
ComparisonTypes == {"min", "max"}

\* pivot configurations with one min or max measure and no column limit in reach
ComparisonConfigs == [rows : {<<"a">>},
                      columns : {<<"b">>},
                      measures : {<<[name |-> "total", field |-> "v", type |-> t]>> :
                                     t \in ComparisonTypes},
                      show_totals : BOOLEAN,
                      show_grand_total : {TRUE},
                      max_columns : {2}]

\* records whose dimension fields hold a string, a number or nothing
DimensionRecords == {r \in [{"a", "b", "v"} -> {Str("X"), Num(1), Num(2), None}] :
                        /\ r["a"] # Num(2)
                        /\ r["b"] # Num(2)
                        /\ r["v"] # Str("X")}

\* pivot configurations with one or two field paths per dimension, a sum or
\* a count measure and the default column limit
DimensionConfigs == [rows : {<<"a">>, <<"a", "b">>},
                     columns : {<<"b">>, <<"b", "a">>},
                     measures : {<<[name |-> "total", field |-> "v", type |-> t]>> :
                                    t \in {"sum", "count"}},
                     show_totals : BOOLEAN,
                     show_grand_total : {TRUE},
                     max_columns : {200}]

(***************************************************************************)
(* Code points of the one-character strings used as dimension values;      *)
(* Python orders str values by code point.                                 *)
(***************************************************************************)
Ord(c) == CASE c = "P" -> 80
            [] c = "Q" -> 81
            [] c = "R" -> 82
            [] c = "X" -> 88
            [] c = "Y" -> 89
            [] OTHER -> 0

\* a < b for two values of a raw record; defined when both have the same type
Comparable(a, b) == a.k = b.k /\ a.k # "none"

ValueLess(a, b) == IF a.k = "num" THEN a.n < b.n
                   ELSE a.s # b.s /\ (a.s = "" \/ (b.s # "" /\ Ord(a.s) < Ord(b.s)))

\* a dimension key is one value (one field path) or a tuple of values
RECURSIVE TupleLessFrom(_, _, _)
TupleLessFrom(x, y, i) ==
    IF i > Len(x) \/ i > Len(y) THEN Len(x) < Len(y)
    ELSE IF x[i] = y[i] THEN TupleLessFrom(x, y, i + 1)
    ELSE ValueLess(x[i], y[i])

RECURSIVE TupleComparableFrom(_, _, _)
TupleComparableFrom(x, y, i) ==
    IF i > Len(x) \/ i > Len(y) THEN TRUE
    ELSE IF x[i] = y[i] THEN TupleComparableFrom(x, y, i + 1)
    ELSE Comparable(x[i], y[i])

KeyLess(multi, x, y) == IF multi THEN TupleLessFrom(x, y, 1) ELSE ValueLess(x, y)

KeyComparable(multi, x, y) == IF multi THEN TupleComparableFrom(x, y, 1) ELSE Comparable(x, y)

\* sorted(unique_values): the ascending list of a set of mutually comparable keys
Sorted(multi, S) ==
    CHOOSE s \in [1..Cardinality(S) -> S] :
        \A i, j \in 1..Cardinality(S) : i < j => KeyLess(multi, s[i], s[j])

\* data[field_path] walked by _get_nested_value: an unresolved path gives None
GetNestedValue(row, field_path) ==
    IF field_path \in DOMAIN row THEN row[field_path] ELSE None

\* DataFormatter.format_number: the locale's decimal text of the number
FormatNumber(value) == ToString(value)

FormatMeasureValue(value, measure_type) ==
    IF measure_type = "avg" /\ value # 0 THEN FormatNumber(value) ELSE FormatNumber(value)

\* float(value): the number a value parses to
IsNumeric(value) == value.k = "num"

FloatOf(value) == value.n

\* d.get(key, 0) of a mapping from measure names to accumulators
CellGet(cell, measure_name) == IF measure_name \in DOMAIN cell THEN cell[measure_name] ELSE 0

CellPut(cell, measure_name, x) ==
    [m \in DOMAIN cell \cup {measure_name} |-> IF m = measure_name THEN x ELSE cell[m]]

\* matrix.get(row_value, {}).get(column_value, {})
MatrixGet(matrix, r, c) == IF <<r, c>> \in DOMAIN matrix THEN matrix[<<r, c>>] ELSE EmptyMap

MatrixPut(matrix, r, c, cell) ==
    [p \in DOMAIN matrix \cup {<<r, c>>} |-> IF p = <<r, c>> THEN cell ELSE matrix[p]]

ExtractUniqueValues(d, fields) ==
    LET multi == Len(fields) # 1
        unique_values ==
            IF ~multi
            THEN {GetNestedValue(d[i], fields[1]) : i \in 1..Len(d)} \ {None}
            ELSE {[j \in 1..Len(fields) |->
                      LET value == GetNestedValue(d[i], fields[j])
                      IN  IF value # None THEN value ELSE Str("")] : i \in 1..Len(d)}
    IN  IF \A x, y \in unique_values : x = y \/ KeyComparable(multi, x, y)
        THEN [ok |-> TRUE, values |-> Sorted(multi, unique_values)]
        ELSE [ok |-> FALSE, values |-> <<>>]

GetRowKey(row, row_fields) ==
    IF Len(row_fields) = 1 THEN GetNestedValue(row, row_fields[1])
    ELSE [j \in 1..Len(row_fields) |-> GetNestedValue(row, row_fields[j])]

GetColumnKey(row, column_fields) ==
    IF Len(column_fields) = 1 THEN GetNestedValue(row, column_fields[1])
    ELSE [j \in 1..Len(column_fields) |-> GetNestedValue(row, column_fields[j])]

\* mutant of AggregateMeasures: the accumulator is assigned (=) instead of added to (+=)
RECURSIVE AggregateMeasuresAssign(_, _, _, _, _, _)
AggregateMeasuresAssign(matrix, row, row_key, column_key, measures, i) ==
    IF i > Len(measures) THEN matrix
    ELSE LET measure == measures[i]
             value == GetNestedValue(row, measure.field)
             cell == MatrixGet(matrix, row_key, column_key)
             next == IF value # None /\ IsNumeric(value)
                     THEN MatrixPut(matrix, row_key, column_key,
                                    CellPut(cell, measure.name, FloatOf(value)))
                     ELSE matrix
         IN  AggregateMeasuresAssign(next, row, row_key, column_key, measures, i + 1)

\* the loop over pivot_config.measures for one record
RECURSIVE AggregateMeasures(_, _, _, _, _, _)
AggregateMeasures(matrix, row, row_key, column_key, measures, i) ==
    IF i > Len(measures) THEN matrix
    ELSE LET measure == measures[i]
             value == GetNestedValue(row, measure.field)
             cell == MatrixGet(matrix, row_key, column_key)
             next == IF value # None /\ IsNumeric(value)
                     THEN MatrixPut(matrix, row_key, column_key,
                                    CellPut(cell, measure.name,
                                            CellGet(cell, measure.name) + FloatOf(value)))
                     ELSE matrix
         IN  AggregateMeasures(next, row, row_key, column_key, measures, i + 1)

RECURSIVE CreatePivotMatrixFrom(_, _, _, _, _, _)
CreatePivotMatrixFrom(matrix, d, config, row_values, column_values, i) ==
    IF i > Len(d) THEN matrix
    ELSE LET row == d[i]
             row_key == GetRowKey(row, config.rows)
             column_key == GetColumnKey(row, config.columns)
             next == IF row_key \notin Range(row_values) THEN matrix
                     ELSE IF column_key \notin Range(column_values) THEN matrix
                     ELSE AggregateMeasures(matrix, row, row_key, column_key, config.measures, 1)
         IN  CreatePivotMatrixFrom(next, d, config, row_values, column_values, i + 1)

CreatePivotMatrix(d, config, row_values, column_values) ==
    CreatePivotMatrixFrom(EmptyMap, d, config, row_values, column_values, 1)

MeasureNames(config) == {config.measures[i].name : i \in 1..Len(config.measures)}

\* type of the first measure carrying the name
MeasureType(config, name) ==
    config.measures[CHOOSE i \in 1..Len(config.measures) :
                        /\ config.measures[i].name = name
                        /\ \A j \in 1..(i - 1) : config.measures[j].name # name].type

\* sum over the listed columns of one measure of the cells of a row
RECURSIVE SumOverColumns(_, _, _, _)
SumOverColumns(cells, column_values, name, i) ==
    IF i > Len(column_values) THEN 0
    ELSE CellGet(cells[column_values[i]], name) + SumOverColumns(cells, column_values, name, i + 1)

GeneratePivotTable(matrix, row_values, column_values, config) ==
    [ri \in 1..Len(row_values) |->
        LET row_value == row_values[ri]
            cells == [c \in Range(column_values) |-> MatrixGet(matrix, row_value, c)]
        IN  [row_key |-> row_value,
             cells |-> cells,
             row_totals |-> [name \in MeasureNames(config) |->
                                FormatMeasureValue(SumOverColumns(cells, column_values, name, 1),
                                                   MeasureType(config, name))]]]

\* mutant of SumOverRows: the column total misses the last row of the table
RECURSIVE SumOverRowsButLast(_, _, _, _)
SumOverRowsButLast(pivot_table, column_value, name, i) ==
    IF i >= Len(pivot_table) THEN 0
    ELSE CellGet(pivot_table[i].cells[column_value], name)
         + SumOverRowsButLast(pivot_table, column_value, name, i + 1)

\* sum over the rows of the table of one measure of the cells of a column
RECURSIVE SumOverRows(_, _, _, _)
SumOverRows(pivot_table, column_value, name, i) ==
    IF i > Len(pivot_table) THEN 0
    ELSE CellGet(pivot_table[i].cells[column_value], name)
         + SumOverRows(pivot_table, column_value, name, i + 1)

RECURSIVE SumOverTable(_, _, _, _)
SumOverTable(pivot_table, column_values, name, i) ==
    IF i > Len(pivot_table) THEN 0
    ELSE SumOverColumns(pivot_table[i].cells, column_values, name, 1)
         + SumOverTable(pivot_table, column_values, name, i + 1)

NoTotals == [column_totals |-> EmptyMap, grand_totals |-> EmptyMap, row_totals |-> <<>>]

CalculatePivotTotals(pivot_table, config, row_values, column_values) ==
    IF ~config.show_totals THEN NoTotals
    ELSE [column_totals |->
             [c \in (IF Len(pivot_table) = 0 THEN {} ELSE Range(column_values)) |->
                 [name \in MeasureNames(config) |->
                     FormatMeasureValue(SumOverRows(pivot_table, c, name, 1),
                                        MeasureType(config, name))]],
          grand_totals |->
             [name \in MeasureNames(config) |->
                 FormatMeasureValue(SumOverTable(pivot_table, column_values, name, 1),
                                    MeasureType(config, name))],
          row_totals |->
             [ri \in 1..Len(pivot_table) |->
                 [row_key |-> pivot_table[ri].row_key,
                  totals |-> pivot_table[ri].row_totals]]]

\* mutant of Truncate: the last max_columns keys are kept (column_values[-max_columns:])
TruncateKeepLast(column_values, max_columns) ==
    IF Len(column_values) > max_columns
    THEN SubSeq(column_values, Len(column_values) - max_columns + 1, Len(column_values))
    ELSE column_values

\* column_values[:max_columns] for a non-negative max_columns
Truncate(column_values, max_columns) ==
    IF Len(column_values) > max_columns
    THEN SubSeq(column_values, 1, max_columns)
    ELSE column_values

PivotPending == [status |-> "pending", pivot_table |-> <<>>, row_values |-> <<>>,
                 column_values |-> <<>>, totals |-> NoTotals]

PivotError == [status |-> "error", pivot_table |-> <<>>, row_values |-> <<>>,
               column_values |-> <<>>, totals |-> NoTotals]

TransformPivotDataResult(d, config) ==
    LET rows == ExtractUniqueValues(d, config.rows)
        cols == ExtractUniqueValues(d, config.columns)
    IN  IF ~rows.ok \/ ~cols.ok THEN PivotError
        ELSE LET row_values == rows.values
                 column_values == Truncate(cols.values, config.max_columns)
                 pivot_matrix == CreatePivotMatrix(d, config, row_values, column_values)
                 pivot_table == GeneratePivotTable(pivot_matrix, row_values, column_values, config)
                 totals == CalculatePivotTotals(pivot_table, config, row_values, column_values)
             IN  [status |-> "ok", pivot_table |-> pivot_table, row_values |-> row_values,
                  column_values |-> column_values, totals |-> totals]

(***************************************************************************)
(* JSON values.  A descriptor (pipeline) and a parameter value are trees    *)
(* of nodes; t is the Python type of the node, s the characters of a str    *)
(* (or of a key, for a pair of a dict), n a number (1/0 for True/False),    *)
(* kids the items of a list or the pairs of a dict in insertion order.      *)
(* A text is a sequence of one-character strings.                           *)
(***************************************************************************)
Node(t, s, n, kids) == [t |-> t, s |-> s, n |-> n, kids |-> kids]

JStr(s) == Node("str", s, 0, <<>>)

JNum(n) == Node("num", <<>>, n, <<>>)

JBool(b) == Node("bool", <<>>, IF b THEN 1 ELSE 0, <<>>)

JNull == Node("null", <<>>, 0, <<>>)

JArr(items) == Node("arr", <<>>, 0, items)

JPair(key, v) == Node("pair", key, 0, <<v>>)

JObj(pairs) == Node("obj", <<>>, 0, pairs)

\* datetime.datetime value, held by its isoformat() text
JDateTime(iso) == Node("datetime", iso, 0, <<>>)

DigitChars == <<"0", "1", "2", "3", "4", "5", "6", "7", "8", "9">>

IsDigit(c) == c \in Range(DigitChars)

DigitValue(c) == (CHOOSE d \in 1..Len(DigitChars) : DigitChars[d] = c) - 1

\* str(n) of an int
RECURSIVE DigitsOfNat(_)
DigitsOfNat(n) ==
    IF n < Len(DigitChars) THEN <<DigitChars[n + 1]>>
    ELSE Append(DigitsOfNat(n \div Len(DigitChars)), DigitChars[(n % Len(DigitChars)) + 1])

DigitsOf(n) == IF n < 0 THEN <<"-">> \o DigitsOfNat(-n) ELSE DigitsOfNat(n)

\* mutant of EscapeString: the quote and the backslash are written unescaped
EscapeStringRaw(s) == s

\* the least index from i on of a character of the set, or Len(text) + 1
NextIndexIn(text, i, chars) ==
    IF \E j \in i..Len(text) : text[j] \in chars
    THEN CHOOSE j \in i..Len(text) : text[j] \in chars /\ \A h \in i..(j - 1) : text[h] \notin chars
    ELSE Len(text) + 1

\* json.dumps of the characters of a str: the quote and the backslash are escaped
RECURSIVE EscapeFrom(_, _)
EscapeFrom(s, i) ==
    LET j == NextIndexIn(s, i, {"\"", "\\"})
    IN  IF j > Len(s) THEN SubSeq(s, i, Len(s))
        ELSE SubSeq(s, i, j - 1) \o <<"\\", s[j]>> \o EscapeFrom(s, j + 1)

EscapeString(s) == EscapeFrom(s, 1)

QuoteString(s) == <<"\"">> \o EscapeString(s) \o <<"\"">>

\* json.dumps with the default separators ", " and ": "
RECURSIVE JsonDumps(_)
RECURSIVE DumpsItems(_, _)
JsonDumps(v) ==
    IF v.t = "str" THEN QuoteString(v.s)
    ELSE IF v.t = "num" THEN DigitsOf(v.n)
    ELSE IF v.t = "bool" THEN (IF v.n = 1 THEN <<"t", "r", "u", "e">> ELSE <<"f", "a", "l", "s", "e">>)
    ELSE IF v.t = "null" THEN <<"n", "u", "l", "l">>
    ELSE IF v.t = "arr" THEN <<"[">> \o DumpsItems(v.kids, 1) \o <<"]">>
    ELSE IF v.t = "obj" THEN <<"{">> \o DumpsItems(v.kids, 1) \o <<"}">>
    ELSE QuoteString(v.s) \o <<":", " ">> \o JsonDumps(v.kids[1])

DumpsItems(items, i) ==
    IF i > Len(items) THEN <<>>
    ELSE JsonDumps(items[i]) \o (IF i < Len(items) THEN <<",", " ">> ELSE <<>>)
         \o DumpsItems(items, i + 1)

\* str(param_value) of a str, int or bool
PyStr(v) ==
    IF v.t = "str" THEN v.s
    ELSE IF v.t = "num" THEN DigitsOf(v.n)
    ELSE IF v.n = 1 THEN <<"T", "r", "u", "e">> ELSE <<"F", "a", "l", "s", "e">>

MatchAt(text, pattern, i) ==
    /\ i + Len(pattern) - 1 <= Len(text)
    /\ SubSeq(text, i, i + Len(pattern) - 1) = pattern

\* str.replace(pattern, replacement): every non-overlapping occurrence, left to right
RECURSIVE ReplaceFrom(_, _, _, _)
ReplaceFrom(text, pattern, replacement, i) ==
    IF \E j \in i..Len(text) : MatchAt(text, pattern, j)
    THEN LET j == CHOOSE j \in i..Len(text) :
                      MatchAt(text, pattern, j) /\ \A h \in i..(j - 1) : ~MatchAt(text, pattern, h)
         IN  SubSeq(text, i, j - 1) \o replacement
             \o ReplaceFrom(text, pattern, replacement, j + Len(pattern))
    ELSE SubSeq(text, i, Len(text))

Replace(text, pattern, replacement) == ReplaceFrom(text, pattern, replacement, 1)

(***************************************************************************)
(* json.loads: the decoder of the json package on the texts of this        *)
(* alphabet (no exponent, fraction, NaN or \u escape occurs in them).      *)
(***************************************************************************)
ParseFail == [ok |-> FALSE, v |-> JNull, i |-> 0]

ParseOk(v, i) == [ok |-> TRUE, v |-> v, i |-> i]

RECURSIVE SkipWs(_, _)
SkipWs(text, i) == IF i <= Len(text) /\ text[i] = " " THEN SkipWs(text, i + 1) ELSE i

EscapedChar(c) ==
    IF c = "n" THEN "\n" ELSE IF c = "t" THEN "\t" ELSE IF c = "r" THEN "\r"
    ELSE IF c = "f" THEN "\f" ELSE IF c = "b" THEN "\\b" ELSE c

\* py_scanstring from the character after the opening quote
RECURSIVE ScanString(_, _, _)
ScanString(text, i, acc) ==
    LET j == NextIndexIn(text, i, {"\"", "\\"})
        chunk == acc \o SubSeq(text, i, j - 1)
    IN  IF j > Len(text) THEN [ok |-> FALSE, s |-> <<>>, i |-> 0]
        ELSE IF text[j] = "\"" THEN [ok |-> TRUE, s |-> chunk, i |-> j + 1]
        ELSE IF j + 1 <= Len(text) /\ text[j + 1] \in {"\"", "\\", "/", "b", "f", "n", "r", "t"}
             THEN ScanString(text, j + 2, Append(chunk, EscapedChar(text[j + 1])))
             ELSE [ok |-> FALSE, s |-> <<>>, i |-> 0]

\* the digits of an integer literal from i: [n, i] after the last digit
RECURSIVE ScanDigits(_, _, _)
ScanDigits(text, i, n) ==
    IF i <= Len(text) /\ IsDigit(text[i])
    THEN ScanDigits(text, i + 1, n * Len(DigitChars) + DigitValue(text[i]))
    ELSE [n |-> n, i |-> i]

\* NUMBER_RE: -?(0|[1-9][0-9]*)
ScanNumber(text, i) ==
    LET neg == text[i] = "-"
        j == IF neg THEN i + 1 ELSE i
    IN  IF j > Len(text) \/ ~IsDigit(text[j]) THEN ParseFail
        ELSE IF text[j] = "0" THEN ParseOk(JNum(0), j + 1)
        ELSE LET d == ScanDigits(text, j, 0)
             IN  ParseOk(JNum(IF neg THEN -d.n ELSE d.n), d.i)

\* dict[key] = value: a repeated key keeps its place and takes the last value
PutPair(pairs, key, v) ==
    IF \E j \in 1..Len(pairs) : pairs[j].s = key
    THEN [j \in 1..Len(pairs) |-> IF pairs[j].s = key THEN JPair(key, v) ELSE pairs[j]]
    ELSE Append(pairs, JPair(key, v))

RECURSIVE ParseValue(_, _)
RECURSIVE ParseMembers(_, _, _)
RECURSIVE ParseElements(_, _, _)

\* scan_once
ParseValue(text, i) ==
    IF i > Len(text) THEN ParseFail
    ELSE IF text[i] = "\""
         THEN LET r == ScanString(text, i + 1, <<>>)
              IN  IF r.ok THEN ParseOk(JStr(r.s), r.i) ELSE ParseFail
    ELSE IF text[i] = "{"
         THEN LET j == SkipWs(text, i + 1)
              IN  IF j <= Len(text) /\ text[j] = "}" THEN ParseOk(JObj(<<>>), j + 1)
                  ELSE ParseMembers(text, j, <<>>)
    ELSE IF text[i] = "["
         THEN LET j == SkipWs(text, i + 1)
              IN  IF j <= Len(text) /\ text[j] = "]" THEN ParseOk(JArr(<<>>), j + 1)
                  ELSE ParseElements(text, j, <<>>)
    ELSE IF MatchAt(text, <<"n", "u", "l", "l">>, i) THEN ParseOk(JNull, i + 4)
    ELSE IF MatchAt(text, <<"t", "r", "u", "e">>, i) THEN ParseOk(JBool(TRUE), i + 4)
    ELSE IF MatchAt(text, <<"f", "a", "l", "s", "e">>, i) THEN ParseOk(JBool(FALSE), i + 5)
    ELSE IF text[i] = "-" \/ IsDigit(text[i]) THEN ScanNumber(text, i)
    ELSE ParseFail

\* JSONObject from the opening quote of a key
ParseMembers(text, i, pairs) ==
    IF i > Len(text) \/ text[i] # "\"" THEN ParseFail
    ELSE LET key == ScanString(text, i + 1, <<>>)
         IN  IF ~key.ok THEN ParseFail
             ELSE LET c == SkipWs(text, key.i)
                  IN  IF c > Len(text) \/ text[c] # ":" THEN ParseFail
                      ELSE LET v == ParseValue(text, SkipWs(text, c + 1))
                           IN  IF ~v.ok THEN ParseFail
                               ELSE LET e == SkipWs(text, v.i)
                                        next == PutPair(pairs, key.s, v.v)
                                    IN  IF e > Len(text) THEN ParseFail
                                        ELSE IF text[e] = "}" THEN ParseOk(JObj(next), e + 1)
                                        ELSE IF text[e] = ","
                                             THEN ParseMembers(text, SkipWs(text, e + 1), next)
                                        ELSE ParseFail

\* JSONArray from the first character of an item
ParseElements(text, i, items) ==
    LET v == ParseValue(text, i)
    IN  IF ~v.ok THEN ParseFail
        ELSE LET e == SkipWs(text, v.i)
                 next == Append(items, v.v)
             IN  IF e > Len(text) THEN ParseFail
                 ELSE IF text[e] = "]" THEN ParseOk(JArr(next), e + 1)
                 ELSE IF text[e] = "," THEN ParseElements(text, SkipWs(text, e + 1), next)
                 ELSE ParseFail

\* json.loads(text): the value, or JSONDecodeError
JsonLoads(text) ==
    LET r == ParseValue(text, SkipWs(text, 1))
    IN  IF r.ok /\ SkipWs(text, r.i) = Len(text) + 1
        THEN [ok |-> TRUE, v |-> r.v]
        ELSE [ok |-> FALSE, v |-> JNull]

(***************************************************************************)
(* QueryExecutor._substitute_parameters                                     *)
(***************************************************************************)
Token(param_name) == <<"{", "{">> \o param_name \o <<"}", "}">>

QuotedToken(param_name) == <<"\"">> \o Token(param_name) \o <<"\"">>

\* f'{{"$date": "{param_value.isoformat()}Z"}}'
DateMarker(param_value) ==
    <<"{", "\"", "$", "d", "a", "t", "e", "\"", ":", " ", "\"">> \o param_value.s \o <<"Z", "\"", "}">>

\* one pass of the loop over parameters.items()
SubstituteOne(pipeline_str, param_name, param_value) ==
    IF param_value.t \in {"str", "num", "bool"}
    THEN Replace(pipeline_str, Token(param_name), PyStr(param_value))
    ELSE IF param_value.t \in {"arr", "obj"}
    THEN Replace(pipeline_str, QuotedToken(param_name), JsonDumps(param_value))
    ELSE IF param_value.t = "datetime"
    THEN Replace(pipeline_str, QuotedToken(param_name), DateMarker(param_value))
    ELSE pipeline_str

RECURSIVE SubstituteFrom(_, _, _)
SubstituteFrom(pipeline_str, params, i) ==
    IF i > Len(params) THEN pipeline_str
    ELSE SubstituteFrom(SubstituteOne(pipeline_str, params[i].name, params[i].value), params, i + 1)

SubstPending == [status |-> "pending", value |-> JNull]

\* ValueError("Invalid pipeline after parameter substitution")
SubstError == [status |-> "error", value |-> JNull]

SubstituteParametersResult(pl, params) ==
    LET pipeline_str == JsonDumps(pl)
        parsed == JsonLoads(SubstituteFrom(pipeline_str, params, 1))
    IN  IF parsed.ok THEN [status |-> "ok", value |-> parsed.v] ELSE SubstError

(***************************************************************************)
(* Input domains of the query assembler.                                   *)
(***************************************************************************)
K_match == <<"$", "m", "a", "t", "c", "h">>

K_limit == <<"$", "l", "i", "m", "i", "t">>

K_status == <<"s", "t", "a", "t", "u", "s">>

K_age == <<"a", "g", "e">>

K_min == <<"m", "i", "n">>

K_gt == <<"$", "g", "t">>

\* string fields of a descriptor: a literal, a quoted placeholder, a placeholder
\* inside a longer string, a literal with a quote and one with a backslash
FieldStrings == {JStr(<<"a", "c", "t", "i", "v", "e">>), JStr(Token(K_status)), JStr(<<"x", "-">> \o Token(K_status)),
                 JStr(Token(K_min)), JStr(<<"a", "\"", "b">>), JStr(<<"a", "\\", "b">>)}

FieldValues == FieldStrings \cup {JNum(5), JBool(TRUE), JNull, JArr(<<JNum(1), JStr(<<"a">>)>>)}

Pipelines ==
    {JArr(<<JObj(<<JPair(K_match, JObj(<<JPair(K_status, f)>>))>>)>>) : f \in FieldStrings}
    \cup {JArr(<<JObj(<<JPair(K_match, JObj(<<JPair(K_status, f), JPair(K_age, g)>>))>>)>>) :
             f \in FieldStrings, g \in FieldValues}
    \cup {JArr(<<JObj(<<JPair(K_match, JObj(<<JPair(K_status, f)>>))>>),
                 JObj(<<JPair(K_limit, JNum(5))>>)>>) : f \in FieldStrings}

\* values bound to a parameter: str (plain, with quotes and commas, with one
\* quote, holding a token), int, bool, None, list, dict, naive and
\* timezone-aware datetime
ParamValues == {JStr(<<"a", "c", "t", "i", "v", "e">>), JStr(<<"a", "\"", ",", " ", "\"", "x", "\"", ":", " ", "\"", "b">>), JStr(<<"a", "\"", "b">>), JStr(Token(K_min)),
                JNum(5), JBool(TRUE), JNull,
                JArr(<<JStr(<<"a">>), JNum(1)>>),
                JObj(<<JPair(K_gt, JNum(5))>>),
                JDateTime(<<"2", "0", "2", "4", "-", "0", "1", "-", "0", "1", "T", "0", "0", ":", "0", "0", ":", "0", "0">>),
                JDateTime(<<"2", "0", "2", "4", "-", "0", "1", "-", "0", "1", "T", "0", "0", ":", "0", "0", ":", "0", "0", "+", "0", "0", ":", "0", "0">>)}

ParamNames == {K_status, K_min}

\* parameters.items(): the bindings in insertion order, one per name
ParamMappings ==
    {ps \in SeqsUpTo([name : ParamNames, value : ParamValues], Cardinality(ParamNames)) :
        \A i, j \in 1..Len(ps) : i # j => ps[i].name # ps[j].name}

(***************************************************************************)
(* QueryExecutor.validate_parameters                                        *)
(***************************************************************************)
\* float value (float(value)), told apart from the int of the same magnitude
JFloat(n) == Node("float", <<>>, n, <<>>)

UpperChars == <<"A", "B", "C", "D", "E", "F", "G", "H", "I", "J", "K", "L", "M",
                "N", "O", "P", "Q", "R", "S", "T", "U", "V", "W", "X", "Y", "Z">>

LowerChars == <<"a", "b", "c", "d", "e", "f", "g", "h", "i", "j", "k", "l", "m",
                "n", "o", "p", "q", "r", "s", "t", "u", "v", "w", "x", "y", "z">>

LowerChar(c) ==
    IF \E i \in 1..Len(UpperChars) : UpperChars[i] = c
    THEN LowerChars[CHOOSE i \in 1..Len(UpperChars) : UpperChars[i] = c]
    ELSE c

\* value.lower()
Lower(s) == [i \in 1..Len(s) |-> LowerChar(s[i])]

\* ('true', '1', 'yes', 'on')
TruthyWords == {<<"t", "r", "u", "e">>, <<"1">>, <<"y", "e", "s">>, <<"o", "n">>}

ConvOk(v) == [ok |-> TRUE, v |-> v]

\* ValueError or TypeError raised by a conversion
ConvFail == [ok |-> FALSE, v |-> JNull]

AllDigits(s) == Len(s) > 0 /\ \A i \in 1..Len(s) : IsDigit(s[i])

\* int(value) and float(value) of a str: an optionally signed run of digits
NumberOfText(s) ==
    LET signed == Len(s) > 0 /\ s[1] \in {"-", "+"}
        digits == IF signed THEN Tail(s) ELSE s
    IN  IF AllDigits(digits)
        THEN ConvOk(JNum(IF signed /\ s[1] = "-" THEN -ScanDigits(digits, 1, 0).n
                         ELSE ScanDigits(digits, 1, 0).n))
        ELSE ConvFail

\* int(value)
PyInt(value) ==
    IF value.t = "str" THEN NumberOfText(value.s)
    ELSE IF value.t \in {"num", "bool", "float"} THEN ConvOk(JNum(value.n))
    ELSE ConvFail

\* float(value)
PyFloat(value) ==
    IF PyInt(value).ok THEN ConvOk(JFloat(PyInt(value).v.n)) ELSE ConvFail

\* bool(value)
PyBool(value) ==
    IF value.t \in {"num", "bool", "float"} THEN value.n # 0
    ELSE IF value.t = "str" THEN Len(value.s) > 0
    ELSE IF value.t \in {"arr", "obj"} THEN Len(value.kids) > 0
    ELSE value.t # "null"

\* str(value)
PyStrAny(value) ==
    IF value.t \in {"str", "num", "bool"} THEN PyStr(value)
    ELSE IF value.t = "null" THEN <<"N", "o", "n", "e">>
    ELSE IF value.t = "datetime" THEN Replace(value.s, <<"T">>, <<" ">>)
    ELSE JsonDumps(value)

DigitsAt(s, positions) == \A i \in positions : i <= Len(s) /\ IsDigit(s[i])

\* datetime.fromisoformat(text).isoformat() for YYYY-MM-DD, optionally followed by
\* THH:MM:SS, optionally followed by +HH:MM or -HH:MM; ValueError for another text
FromIsoFormat(s) ==
    LET date_ok == /\ Len(s) >= 10
                   /\ DigitsAt(s, {1, 2, 3, 4, 6, 7, 9, 10})
                   /\ s[5] = "-" /\ s[8] = "-"
        time_ok == /\ Len(s) >= 19
                   /\ DigitsAt(s, {12, 13, 15, 16, 18, 19})
                   /\ s[14] = ":" /\ s[17] = ":"
        zone_ok == /\ Len(s) = 25
                   /\ s[20] \in {"+", "-"}
                   /\ DigitsAt(s, {21, 22, 24, 25})
                   /\ s[23] = ":"
    IN  IF date_ok /\ Len(s) = 10
        THEN ConvOk(JDateTime(s \o <<"T", "0", "0", ":", "0", "0", ":", "0", "0">>))
        ELSE IF date_ok /\ time_ok /\ (Len(s) = 19 \/ zone_ok)
        THEN ConvOk(JDateTime(s))
        ELSE ConvFail

\* the conversion of a supplied value to the declared type
Convert(param_type, value) ==
    IF param_type = "string" THEN ConvOk(JStr(PyStrAny(value)))
    ELSE IF param_type = "integer" THEN PyInt(value)
    ELSE IF param_type = "float" THEN PyFloat(value)
    ELSE IF param_type = "boolean"
         THEN IF value.t = "str" THEN ConvOk(JBool(Lower(value.s) \in TruthyWords))
              ELSE ConvOk(JBool(PyBool(value)))
    ELSE IF param_type = "date"
         THEN IF value.t = "str"
              THEN FromIsoFormat(Replace(value.s, <<"Z">>, <<"+", "0", "0", ":", "0", "0">>))
              ELSE ConvOk(value)
    ELSE IF param_type = "array"
         THEN IF value.t = "arr" THEN ConvOk(value) ELSE ConvOk(JArr(<<value>>))
    ELSE ConvOk(value)

\* mutant of OnMissing: the required flag is not looked at
OnMissingNeverRaise(param_def) ==
    IF param_def.default # JNull THEN "default" ELSE "skip"

\* mutant of OnMissing: the default is tested for truth, not against None
OnMissingTruthyDefault(param_def) ==
    IF param_def.required THEN "raise"
    ELSE IF PyBool(param_def.default) THEN "default"
    ELSE "skip"

\* what is done for a declared parameter that is not among the supplied ones
OnMissing(param_def) ==
    IF param_def.required THEN "raise"
    ELSE IF param_def.default # JNull THEN "default"
    ELSE "skip"

NoError == [kind |-> "none", param |-> <<>>]

ValidatePending == [status |-> "pending", validated |-> <<>>, error |-> NoError]

\* ValueError("Required parameter ... is missing") / ValueError("Invalid value for parameter ...")
ValidateError(kind, param_name) ==
    [status |-> "error", validated |-> <<>>, error |-> [kind |-> kind, param |-> param_name]]

\* the loop over parameter_definitions.items(); validated holds the bindings made so far
RECURSIVE ValidateFrom(_, _, _, _)
ValidateFrom(defs, supplied, i, validated) ==
    IF i > Len(defs) THEN [status |-> "ok", validated |-> validated, error |-> NoError]
    ELSE LET param_def == defs[i]
             param_name == param_def.name
         IN  IF param_name \notin DOMAIN supplied
             THEN IF OnMissing(param_def) = "raise" THEN ValidateError("missing", param_name)
                  ELSE IF OnMissing(param_def) = "default"
                       THEN ValidateFrom(defs, supplied, i + 1,
                                         Append(validated, [name |-> param_name,
                                                            value |-> param_def.default]))
                  ELSE ValidateFrom(defs, supplied, i + 1, validated)
             ELSE LET c == Convert(param_def.type, supplied[param_name])
                  IN  IF c.ok
                      THEN ValidateFrom(defs, supplied, i + 1,
                                        Append(validated, [name |-> param_name, value |-> c.v]))
                      ELSE ValidateError("invalid", param_name)

ValidateParametersResult(supplied, defs) == ValidateFrom(defs, supplied, 1, <<>>)

(***************************************************************************)
(* Input domains of the parameter validator: a parameter "flag" of any     *)
(* declared type and an integer parameter "limit", declared in either      *)
(* order.                                                                  *)
(***************************************************************************)
P_flag == <<"f", "l", "a", "g">>

P_limit == <<"l", "i", "m", "i", "t">>

ParamTypes == {"string", "integer", "float", "boolean", "date", "array", "object"}

Defaults == {JNull, JNum(0), JBool(FALSE), JStr(<<>>), JStr(<<"d">>)}

RawStrings == {<<"T", "R", "U", "E">>, <<"y", "e", "s">>, <<"1">>, <<"O", "n">>, <<"f", "a", "l", "s", "e">>, <<"0">>, <<"N", "O">>, <<"o", "f", "f">>, <<"m", "a", "y", "b", "e">>,
               <<>>, <<"1", "2">>, <<"a", "b", "c">>, <<"2", "0", "2", "4", "-", "0", "1", "-", "0", "1", "T", "0", "0", ":", "0", "0", ":", "0", "0", "Z">>, <<"2", "0", "2", "4", "-", "0", "1", "-", "0", "1">>}

RawValues == {JStr(s) : s \in RawStrings}
             \cup {JNum(5), JNum(0), JBool(TRUE), JNull, JArr(<<JNum(1)>>)}

FlagDefinitions == [name : {P_flag}, type : ParamTypes, required : BOOLEAN, default : Defaults]

LimitDefinitions == [name : {P_limit}, type : {"integer"}, required : BOOLEAN,
                     default : {JNull, JNum(0)}]

LimitValues == {JStr(<<"a", "b", "c">>), JStr(<<"1", "2">>), JNum(5)}

\* parameter_definitions.items(), in declaration order
DefinitionLists ==
    {<<f>> : f \in FlagDefinitions}
    \cup {<<f, l>> : f \in FlagDefinitions, l \in LimitDefinitions}
    \cup {<<l, f>> : f \in FlagDefinitions, l \in LimitDefinitions}

\* the supplied parameters: each name absent or bound to a raw value
SuppliedMappings ==
    {[n \in {} |-> JNull]}
    \cup {[n \in {P_flag} |-> v] : v \in RawValues}
    \cup {[n \in {P_limit} |-> w] : w \in LimitValues}
    \cup {[n \in {P_flag, P_limit} |-> IF n = P_flag THEN v ELSE w] :
             v \in RawValues, w \in LimitValues}

(***************************************************************************)
(* TableTransformer.transform_table_data.  Records are dict nodes, field   *)
(* paths and keys are character sequences.                                 *)
(***************************************************************************)
\* field_path.split('.')
RECURSIVE SplitFrom(_, _)
SplitFrom(text, i) ==
    LET j == NextIndexIn(text, i, {"."})
    IN  IF j > Len(text) THEN <<SubSeq(text, i, Len(text))>>
        ELSE <<SubSeq(text, i, j - 1)>> \o SplitFrom(text, j + 1)

\* isinstance(value, dict) and part in value
DictHas(value, part) ==
    value.t = "obj" /\ \E i \in 1..Len(value.kids) : value.kids[i].s = part

\* value[part]
DictGet(value, part) ==
    value.kids[CHOOSE i \in 1..Len(value.kids) : value.kids[i].s = part].kids[1]

RECURSIVE WalkPartsKeepLast(_, _, _)
WalkPartsKeepLast(value, parts, i) ==
    IF i > Len(parts) THEN value
    ELSE IF DictHas(value, parts[i]) THEN WalkPartsKeepLast(DictGet(value, parts[i]), parts, i + 1)
    ELSE IF value.t = "obj" THEN JNull
    ELSE value

\* mutant of TableGetNestedValue: a non-mapping intermediate value is returned
\* as the value of the path
TableGetNestedValueKeepLast(record, field_path) ==
    WalkPartsKeepLast(record, SplitFrom(field_path, 1), 1)

\* the loop over the parts of the path
RECURSIVE WalkParts(_, _, _)
WalkParts(value, parts, i) ==
    IF i > Len(parts) THEN value
    ELSE IF DictHas(value, parts[i]) THEN WalkParts(DictGet(value, parts[i]), parts, i + 1)
    ELSE JNull

\* TableTransformer._get_nested_value
TableGetNestedValue(record, field_path) == WalkParts(record, SplitFrom(field_path, 1), 1)

\* decimal.Decimal(str(value)) succeeds: an int or a str of digits
IsDecimal(value) ==
    \/ value.t = "num"
    \/ value.t = "str" /\ NumberOfText(value.s).ok

DecimalOf(value) == IF value.t = "num" THEN value.n ELSE NumberOfText(value.s).v.n

\* DataFormatter.format_number without a format string, en_US, for integers
\* below one thousand (no grouping separator); str(value) when babel raises
TableFormatNumber(value) ==
    IF IsDecimal(value) THEN DigitsOf(DecimalOf(value)) ELSE PyStrAny(value)

\* DataFormatter.format_currency, en_US and USD, for integers below one thousand
TableFormatCurrency(value, currency) ==
    IF IsDecimal(value) THEN <<"$">> \o DigitsOf(DecimalOf(value)) \o <<".", "0", "0">>
    ELSE PyStrAny(value) \o <<" ">> \o currency

\* TableTransformer._format_cell_value for the column types string, number, currency
FormatCellValue(value, column) ==
    IF value = JNull THEN <<>>
    ELSE IF column.type = "number" THEN TableFormatNumber(value)
    ELSE IF column.type = "currency" THEN TableFormatCurrency(value, <<"U", "S", "D">>)
    ELSE PyStrAny(value)

F_No == <<"N", "o">>

\* the cell of one record and one column
CellFor(row_data, index, col) ==
    LET field_value == IF col.field = F_No THEN JNum(index)
                       ELSE TableGetNestedValue(row_data, col.field)
    IN  [raw_value |-> field_value,
         formatted_value |-> FormatCellValue(field_value, col),
         type |-> col.type,
         align |-> col.align]

\* the column whose cell row[col.field] holds in the end: the last one of that field
LastColumnOf(columns, field) ==
    columns[CHOOSE i \in 1..Len(columns) :
                /\ columns[i].field = field
                /\ \A j \in (i + 1)..Len(columns) : columns[j].field # field]

\* TableTransformer._transform_rows
TransformRows(rows_data, columns) ==
    [index \in 1..Len(rows_data) |->
        [field \in {columns[i].field : i \in 1..Len(columns)} |->
            CellFor(rows_data[index], index, LastColumnOf(columns, field))]]

\* TableTransformer._prepare_headers
PrepareHeaders(columns) ==
    [i \in 1..Len(columns) |->
        [label |-> columns[i].label, field |-> columns[i].field, type |-> columns[i].type,
         align |-> columns[i].align, sortable |-> TRUE, filterable |-> TRUE]]

\* mutant of NumericValues: a missing or None value counts as 0
RECURSIVE NumericValuesNoneAsZero(_, _)
NumericValuesNoneAsZero(rows_data, field) ==
    IF rows_data = <<>> THEN <<>>
    ELSE LET value == TableGetNestedValue(Head(rows_data), field)
             rest == NumericValuesNoneAsZero(Tail(rows_data), field)
         IN  IF value = JNull THEN <<0>> \o rest
             ELSE IF PyFloat(value).ok THEN <<PyFloat(value).v.n>> \o rest
             ELSE rest

\* the list values of _calculate_totals: float(value) of every record whose
\* value is not None and parses
RECURSIVE NumericValues(_, _)
NumericValues(rows_data, field) ==
    IF rows_data = <<>> THEN <<>>
    ELSE LET value == TableGetNestedValue(Head(rows_data), field)
             rest == NumericValues(Tail(rows_data), field)
         IN  IF value # JNull /\ PyFloat(value).ok THEN <<PyFloat(value).v.n>> \o rest
             ELSE rest

RECURSIVE SumSeq(_)
SumSeq(values) == IF values = <<>> THEN 0 ELSE Head(values) + SumSeq(Tail(values))

Abs(n) == IF n < 0 THEN -n ELSE n

RECURSIVE GCD(_, _)
GCD(a, b) == IF b = 0 THEN a ELSE GCD(b, a % b)

\* the quotient num / den as a fraction in lowest terms
Quotient(num, den) ==
    [num |-> num \div GCD(Abs(num), den), den |-> den \div GCD(Abs(num), den)]

\* the totals entry of a column with at least one numeric value
TotalsOf(values) ==
    [sum |-> SumSeq(values),
     avg |-> Quotient(SumSeq(values), Len(values)),
     min |-> CHOOSE x \in Range(values) : \A y \in Range(values) : x <= y,
     max |-> CHOOSE x \in Range(values) : \A y \in Range(values) : y <= x,
     count |-> Len(values)]

NumericTypes == {"number", "currency"}

\* TableTransformer._calculate_totals
CalculateTotals(rows_data, columns) ==
    [field \in {columns[i].field : i \in {j \in 1..Len(columns) :
                    /\ columns[j].type \in NumericTypes
                    /\ NumericValues(rows_data, columns[j].field) # <<>>}} |->
        TotalsOf(NumericValues(rows_data, field))]

\* TableTransformer._prepare_summary
PrepareSummary(rows_data, columns) ==
    [total_rows |-> Len(rows_data),
     columns |-> Len(columns),
     numeric_columns |-> Cardinality({i \in 1..Len(columns) : columns[i].type \in NumericTypes}),
     date_columns |-> Cardinality({i \in 1..Len(columns) : columns[i].type \in {"date", "datetime"}}),
     text_columns |-> Cardinality({i \in 1..Len(columns) : columns[i].type = "string"})]

TablePending ==
    [status |-> "pending", headers |-> <<>>, rows |-> <<>>, totals |-> <<>>,
     summary |-> <<>>, row_count |-> 0, column_count |-> 0]

\* TableTransformer.transform_table_data
TransformTableDataResult(rows_data, columns) ==
    [status |-> "ok",
     headers |-> PrepareHeaders(columns),
     rows |-> TransformRows(rows_data, columns),
     totals |-> CalculateTotals(rows_data, columns),
     summary |-> PrepareSummary(rows_data, columns),
     row_count |-> Len(TransformRows(rows_data, columns)),
     column_count |-> Len(columns)]

(***************************************************************************)
(* Input domains of the table transformer: records with an optional key    *)
(* "a" (a number, an empty dict or a dict with a key "b") and an optional  *)
(* key "n"; columns over the paths "a.b", "n" and "No".                    *)
(***************************************************************************)
MaxRows == 2

F_a == <<"a">>

F_b == <<"b">>

F_n == <<"n">>

F_a_b == <<"a", ".", "b">>

TableLeafValues == {JNum(1), JNum(2), JStr(<<"1", "2">>), JStr(<<"a", "b", "c">>), JNull}

TableRecords ==
    {JObj(a \o n) :
        a \in {<<>>} \cup {<<JPair(F_a, x)>> :
                  x \in {JNum(5), JObj(<<>>)} \cup {JObj(<<JPair(F_b, v)>>) : v \in TableLeafValues}},
        n \in {<<>>, <<JPair(F_n, JNum(3))>>, <<JPair(F_n, JNull)>>}}

Column(field, type) == [label |-> "label", field |-> field, type |-> type, align |-> "left"]

TableColumns ==
    {Column(F_a_b, "string"), Column(F_a_b, "number"), Column(F_a_b, "currency"),
     Column(F_n, "number"), Column(F_No, "string")}

TableColumnLists ==
    {<<>>} \cup {<<c>> : c \in TableColumns} \cup {<<c, d>> : c \in TableColumns, d \in TableColumns}

\* the table transformer before any call
TableIdle ==
    /\ table_data = <<>>
    /\ table_columns = <<>>
    /\ table_result = TablePending

(***************************************************************************)
(* SubreportProcessor and QueryExecutor.execute_report_query.  The data    *)
(* source is the environment: whether the client is connected and what     *)
(* each aggregation replies are inputs.                                    *)
(***************************************************************************)
\* QueryExecutor._process_results: a datetime becomes its isoformat() text
ProcessResults(results) ==
    [d \in 1..Len(results) |->
        JObj([k \in 1..Len(results[d].kids) |->
                IF results[d].kids[k].kids[1].t = "datetime"
                THEN JPair(results[d].kids[k].s, JStr(results[d].kids[k].kids[1].s))
                ELSE results[d].kids[k]])]

\* mutant of ExecuteAggregation: a pipeline that did not resolve is sent as well
ExecuteAggregationAnyway(processed_pipeline, connected, reply) ==
    IF ~connected
    THEN [ok |-> FALSE, error |-> "Not connected to MongoDB", data |-> <<>>, sent |-> 0,
          asked |-> TRUE]
    ELSE IF reply.fails
    THEN [ok |-> FALSE, error |-> "aggregation failed", data |-> <<>>, sent |-> 1,
          asked |-> TRUE]
    ELSE [ok |-> TRUE, error |-> "", data |-> ProcessResults(reply.docs), sent |-> 1,
          asked |-> TRUE]

\* what execute_report_query does with the outcome of _substitute_parameters:
\* re-raise its error, or execute_aggregation (is_connected, then
\* collection.aggregate) and _process_results.  sent counts the calls of
\* collection.aggregate, asked tells whether is_connected was called
ExecuteAggregation(processed_pipeline, connected, reply) ==
    IF processed_pipeline.status = "error"
    THEN [ok |-> FALSE, error |-> "Invalid pipeline after parameter substitution",
          data |-> <<>>, sent |-> 0, asked |-> FALSE]
    ELSE IF ~connected
    THEN [ok |-> FALSE, error |-> "Not connected to MongoDB", data |-> <<>>, sent |-> 0,
          asked |-> TRUE]
    ELSE IF reply.fails
    THEN [ok |-> FALSE, error |-> "aggregation failed", data |-> <<>>, sent |-> 1,
          asked |-> TRUE]
    ELSE [ok |-> TRUE, error |-> "", data |-> ProcessResults(reply.docs), sent |-> 1,
          asked |-> TRUE]

\* QueryExecutor.execute_report_query
ExecuteReportQuery(pl, params, connected, reply) ==
    ExecuteAggregation(SubstituteParametersResult(pl, params), connected, reply)

ContextHas(parent_context, param_name) ==
    \E i \in 1..Len(parent_context) : parent_context[i].name = param_name

ContextGet(parent_context, param_name) ==
    parent_context[CHOOSE i \in 1..Len(parent_context) : parent_context[i].name = param_name].value

\* extracted[param_name] = value on a dict held as its bindings in insertion order
PutBinding(bindings, param_name, value) ==
    IF \E i \in 1..Len(bindings) : bindings[i].name = param_name
    THEN [i \in 1..Len(bindings) |->
            IF bindings[i].name = param_name THEN [name |-> param_name, value |-> value]
            ELSE bindings[i]]
    ELSE Append(bindings, [name |-> param_name, value |-> value])

RECURSIVE ExtractFromAll(_, _, _)
ExtractFromAll(context_params, parent_context, i) ==
    IF i > Len(parent_context) THEN <<>>
    ELSE <<parent_context[i]>> \o ExtractFromAll(context_params, parent_context, i + 1)

\* mutant of ExtractContextParameters: the whole parent context is passed
ExtractContextParametersAll(context_params, parent_context) ==
    ExtractFromAll(context_params, parent_context, 1)

RECURSIVE ExtractFrom(_, _, _, _)
ExtractFrom(context_params, parent_context, i, extracted) ==
    IF i > Len(context_params) THEN extracted
    ELSE IF ContextHas(parent_context, context_params[i])
    THEN ExtractFrom(context_params, parent_context, i + 1,
                     PutBinding(extracted, context_params[i],
                                ContextGet(parent_context, context_params[i])))
    ELSE ExtractFrom(context_params, parent_context, i + 1, extracted)

\* SubreportProcessor._extract_context_parameters
ExtractContextParameters(context_params, parent_context) ==
    ExtractFrom(context_params, parent_context, 1, <<>>)

\* process_subreport after the query q: the dict returned, or the exception raised
ProcessedData(subreport_config, context_params, q) ==
    [raised |-> ~q.ok,
     error |-> q.error,
     sent |-> q.sent,
     asked |-> q.asked,
     query |-> [pipeline |-> subreport_config.pipeline, parameters |-> context_params],
     processed_data |->
        [name |-> subreport_config.name,
         template |-> subreport_config.template,
         data |-> q.data,
         context_params |-> context_params,
         page_break_before |-> subreport_config.page_break_before,
         page_break_after |-> subreport_config.page_break_after,
         row_count |-> Len(q.data)]]

\* process_subreport with the context parameters it extracted
ProcessSubreportWith(subreport_config, context_params, connected, reply) ==
    ProcessedData(subreport_config, context_params,
                  ExecuteReportQuery(subreport_config.pipeline, context_params, connected, reply))

\* SubreportProcessor.process_subreport
ProcessSubreport(subreport_config, parent_context, connected, reply) ==
    ProcessSubreportWith(subreport_config,
                         ExtractContextParameters(subreport_config.context_params, parent_context),
                         connected, reply)

\* the dict appended for a subreport whose processing raised
FailedSubreport(subreport_config, error) ==
    [name |-> subreport_config.name,
     template |-> subreport_config.template,
     data |-> <<>>,
     error |-> error,
     page_break_before |-> subreport_config.page_break_before,
     page_break_after |-> subreport_config.page_break_after,
     row_count |-> 0]

NoSubreports == [subreports |-> <<>>, queries |-> <<>>, calls |-> 0, asked |-> FALSE]

\* subreports.append(...) for the outcome r of process_subreport
AppendSubreport(acc, subreport_config, r) ==
    [subreports |-> Append(acc.subreports,
                           IF r.raised THEN FailedSubreport(subreport_config, r.error)
                           ELSE r.processed_data),
     queries |-> Append(acc.queries, r.query),
     calls |-> acc.calls + r.sent,
     asked |-> acc.asked \/ r.asked]

\* mutant of ProcessMultipleSubreportsFrom: the loop ends at the first failure
RECURSIVE ProcessMultipleSubreportsStop(_, _, _, _, _, _)
ProcessMultipleSubreportsStop(subreport_configs, parent_context, connected, replies, i, acc) ==
    IF i > Len(subreport_configs) \/ (acc.subreports # <<>>
                                      /\ "error" \in DOMAIN acc.subreports[Len(acc.subreports)])
    THEN acc
    ELSE ProcessMultipleSubreportsStop(subreport_configs, parent_context, connected, replies, i + 1,
            AppendSubreport(acc, subreport_configs[i],
                            ProcessSubreport(subreport_configs[i], parent_context, connected,
                                             replies[i])))

\* the loop of process_multiple_subreports; acc holds the list built so far, the
\* queries handed to execute_report_query and the number of aggregations sent
RECURSIVE ProcessMultipleSubreportsFrom(_, _, _, _, _, _)
ProcessMultipleSubreportsFrom(subreport_configs, parent_context, connected, replies, i, acc) ==
    IF i > Len(subreport_configs) THEN acc
    ELSE ProcessMultipleSubreportsFrom(subreport_configs, parent_context, connected, replies, i + 1,
            AppendSubreport(acc, subreport_configs[i],
                            ProcessSubreport(subreport_configs[i], parent_context, connected,
                                             replies[i])))

\* SubreportProcessor.process_multiple_subreports
ProcessMultipleSubreports(subreport_configs, parent_context, connected, replies) ==
    ProcessMultipleSubreportsFrom(subreport_configs, parent_context, connected, replies, 1, NoSubreports)

\* subreport.get('row_count', 0)
RowCountOf(subreport) == IF "row_count" \in DOMAIN subreport THEN subreport.row_count ELSE 0

\* mutant of ErrorCount: a subreport without rows counts as failed
ErrorCountNoRows(subreports) ==
    Cardinality({i \in 1..Len(subreports) : RowCountOf(subreports[i]) = 0})

\* sum(1 for subreport in subreports if 'error' in subreport)
ErrorCount(subreports) ==
    Cardinality({i \in 1..Len(subreports) : "error" \in DOMAIN subreports[i]})

RECURSIVE TotalRows(_)
TotalRows(subreports) ==
    IF subreports = <<>> THEN 0 ELSE RowCountOf(Head(subreports)) + TotalRows(Tail(subreports))

\* SubreportProcessor.create_subreport_summary
CreateSubreportSummary(subreports) ==
    [total_subreports |-> Len(subreports),
     successful_subreports |-> Len(subreports) - ErrorCount(subreports),
     failed_subreports |-> ErrorCount(subreports),
     total_rows |-> TotalRows(subreports),
     subreports |-> [i \in 1..Len(subreports) |->
                        [name |-> subreports[i].name,
                         row_count |-> RowCountOf(subreports[i]),
                         has_error |-> "error" \in DOMAIN subreports[i],
                         error |-> IF "error" \in DOMAIN subreports[i] THEN subreports[i].error
                                   ELSE "None"]]]

(***************************************************************************)
(* Input domains of the subreport processor.                               *)
(***************************************************************************)
MaxSubreports == 2

K_customerId == <<"c", "u", "s", "t", "o", "m", "e", "r", "I", "d">>

K_region == <<"r", "e", "g", "i", "o", "n">>

\* [{"$match": {"status": "{{status}}"}}], [{"$limit": 5}] and
\* [{"$match": {"customerId": "{{customerId}}"}}]
SubreportPipelines ==
    [by_status |-> JArr(<<JObj(<<JPair(K_match, JObj(<<JPair(K_status, JStr(Token(K_status)))>>))>>)>>),
     latest |-> JArr(<<JObj(<<JPair(K_limit, JNum(5))>>)>>),
     by_customer |-> JArr(<<JObj(<<JPair(K_match,
                        JObj(<<JPair(K_customerId, JStr(Token(K_customerId)))>>))>>)>>)]

ContextParamLists == {<<>>, <<K_status>>, <<K_status, K_customerId>>}

SubreportConfigs ==
    {[name |-> n, template |-> "subreport.html", pipeline |-> SubreportPipelines[n],
      context_params |-> c, page_break_before |-> FALSE, page_break_after |-> FALSE] :
        n \in DOMAIN SubreportPipelines, c \in ContextParamLists}

\* parent contexts: empty, with a status, with a status that breaks the JSON
\* text, with an undeclared key, and with both declared keys
ParentContexts ==
    {<<>>,
     <<[name |-> K_status, value |-> JStr(<<"a", "c", "t", "i", "v", "e">>)]>>,
     <<[name |-> K_status, value |-> JStr(<<"a", "\"", "b">>)]>>,
     <<[name |-> K_region, value |-> JNum(1)], [name |-> K_status, value |-> JStr(<<"a", "c", "t", "i", "v", "e">>)]>>,
     <<[name |-> K_customerId, value |-> JNum(7)], [name |-> K_status, value |-> JStr(<<"a", "c", "t", "i", "v", "e">>)]>>}

SourceDocs ==
    <<JObj(<<JPair(F_n, JNum(1))>>),
      JObj(<<JPair(F_n, JNum(2)), JPair(F_a, JDateTime(<<"2", "0", "2", "4", "-", "0", "1", "-", "0", "1", "T", "0", "0", ":", "0", "0", ":", "0", "0">>))>>)>>

\* what an aggregation replies: an exception, no document, two documents
SourceReplies ==
    {[fails |-> TRUE, docs |-> <<>>], [fails |-> FALSE, docs |-> <<>>],
     [fails |-> FALSE, docs |-> SourceDocs]}

SubreportsPending == [status |-> "pending", subreports |-> <<>>, queries |-> <<>>]

SummaryPending ==
    [status |-> "pending", total_subreports |-> 0, successful_subreports |-> 0,
     failed_subreports |-> 0, total_rows |-> 0, subreports |-> <<>>]

\* the subreport processor before any call
SubreportsIdle ==
    /\ sr_configs = <<>>
    /\ sr_context = <<>>
    /\ source_connected = FALSE
    /\ source_replies = <<>>
    /\ source_calls = 0
    /\ subreports_result = SubreportsPending
    /\ subreport_summary = SummaryPending

(***************************************************************************)
(* ReportGenerator.generate_report and the MongoDBClient every generator   *)
(* gets from get_mongodb_client().  Requests are calls of generate_report  *)
(* in one process; a step of a request is one call generate_report makes.  *)
(* Whether the server answers, what an aggregation replies and whether the *)
(* transformers and the renderer raise are the environment's choice.       *)
(***************************************************************************)
Requests == {1, 2}

\* the parameter definitions and the pipeline of the report, without and with
\* a subreport
ReportConfigs ==
    {[parameters |-> <<[name |-> K_status, type |-> "string", required |-> TRUE,
                        default |-> JNull]>>,
      pipeline |-> SubreportPipelines["by_status"],
      subreports |-> sr] :
        sr \in {<<>>,
                <<[name |-> "latest", template |-> "subreport.html",
                   pipeline |-> SubreportPipelines["latest"],
                   context_params |-> <<K_status>>,
                   page_break_before |-> FALSE, page_break_after |-> FALSE]>>}}

\* the parameters of a request: none, a status, a status that breaks the JSON text
RequestParameters ==
    {[n \in {} |-> JNull],
     [n \in {K_status} |-> JStr(<<"a", "c", "t", "i", "v", "e">>)],
     [n \in {K_status} |-> JStr(<<"a", "\"", "b">>)]}

\* the client wrapper get_mongodb_client() hands out before any connect()
NoClient == 0

\* MongoDBClient.connect: the MongoClient constructor raises, the ping raises,
\* or both succeed
ConnectOutcomes == {"constructor_raises", "ping_raises", "connected"}

\* the dict of validated parameters as a value of the parent context
DictOf(bindings) == JObj([i \in 1..Len(bindings) |-> JPair(bindings[i].name, bindings[i].value)])

\* parent_context of _process_subreports
ParentContextOf(validated_params) ==
    <<[name |-> <<"p", "a", "r", "a", "m", "e", "t", "e", "r", "s">>, value |-> DictOf(validated_params)],
      [name |-> <<"m", "a", "i", "n", "_", "d", "a", "t", "a", "_", "c", "o", "u", "n", "t">>, value |-> JNum(0)],
      [name |-> <<"g", "e", "n", "e", "r", "a", "t", "e", "d", "_", "a", "t">>, value |-> JStr(<<"2", "0", "2", "4", "-", "0", "1", "-", "0", "1", "T", "0", "0", ":", "0", "0", ":", "0", "0">>)]>>

\* ReportGenerator._process_subreports
ProcessSubreportsOf(report_config, validated_params, connected, replies) ==
    IF report_config.subreports = <<>> THEN NoSubreports
    ELSE ProcessMultipleSubreports(report_config.subreports, ParentContextOf(validated_params),
                                   connected, replies)

\* the generators and the shared client before any request
GenerateIdle ==
    /\ gen_config \in ReportConfigs
    /\ gen_config.subreports = <<>>
    /\ gen_supplied = [r \in Requests |-> [n \in {} |-> JNull]]
    /\ gen_pc = [r \in Requests |-> "start"]
    /\ gen_error = [r \in Requests |-> ""]
    /\ gen_outcome = [r \in Requests |-> "none"]
    /\ gen_validated = [r \in Requests |-> <<>>]
    /\ gen_client = [r \in Requests |-> NoClient]
    /\ gen_sent = [r \in Requests |-> 0]
    /\ gen_rendered = [r \in Requests |-> FALSE]
    /\ gen_subreports = [r \in Requests |-> <<>>]
    /\ client_current = NoClient
    /\ client_connected = FALSE
    /\ clients = <<>>

(***************************************************************************)
(* Calls made directly on one MongoDBClient: connect, disconnect,          *)
(* execute_aggregation and execute_find in any order.  client_calls is     *)
(* the list of the calls made so far with what each did.                   *)
(***************************************************************************)
MaxCalls == 4

\* no call has been made on the client
CallsIdle == client_calls = <<>>

(***************************************************************************)
(* The REST API: every endpoint takes its generator from get_generator.    *)
(* api_generator is the locale of the module-level _generator;             *)
(* api_requests lists, per request served, the locale asked for and the    *)
(* locale of the generator it was handed.                                  *)
(***************************************************************************)
MaxApiRequests == 4

Locales == {"en_US", "pl_PL", "de_DE"}

\* _generator = None
NoGenerator == "none"

\* the locale of the generator get_generator(locale) returns
GetGenerator(locale) == IF api_generator = NoGenerator THEN locale ELSE api_generator

\* the API module after import
ApiIdle ==
    /\ api_generator = NoGenerator
    /\ api_requests = <<>>

(***************************************************************************)
(* The pivot transformer as a state machine.                               *)
(***************************************************************************)
\* the parameter validator before any call
ValidateIdle ==
    /\ parameter_definitions = <<>>
    /\ supplied_parameters = [n \in {} |-> JNull]
    /\ validate_result = ValidatePending

\* the query assembler before any call
SubstIdle ==
    /\ pipeline = JArr(<<>>)
    /\ parameters = <<>>
    /\ subst_result = SubstPending
    /\ resubst_result = SubstPending

InitPivot ==
    /\ data \in SeqsUpTo(PivotRecords, MaxRecords)
    /\ pivot_config \in PivotConfigs
    /\ pivot_result = PivotPending
    /\ SubstIdle
    /\ ValidateIdle
    /\ TableIdle
    /\ SubreportsIdle
    /\ GenerateIdle
    /\ CallsIdle
    /\ ApiIdle

TransformPivotData ==
    /\ pivot_result.status = "pending"
    /\ pivot_result' = TransformPivotDataResult(data, pivot_config)
    /\ UNCHANGED <<data, pivot_config, except_pivot>>

NextPivot == TransformPivotData

SpecPivot == InitPivot /\ [][NextPivot]_vars

\* the pivot transformer called with a min or max measure
InitComparison ==
    /\ data \in SeqsUpTo(PivotRecords, MaxRecords)
    /\ pivot_config \in ComparisonConfigs
    /\ pivot_result = PivotPending
    /\ SubstIdle
    /\ ValidateIdle
    /\ TableIdle
    /\ SubreportsIdle
    /\ GenerateIdle
    /\ CallsIdle
    /\ ApiIdle

SpecComparison == InitComparison /\ [][NextPivot]_vars

\* the pivot transformer called with composite dimensions, dimension values
\* of several types and count measures
InitDimensions ==
    /\ data \in SeqsUpTo(DimensionRecords, MaxRecords)
    /\ pivot_config \in DimensionConfigs
    /\ pivot_result = PivotPending
    /\ SubstIdle
    /\ ValidateIdle
    /\ TableIdle
    /\ SubreportsIdle
    /\ GenerateIdle
    /\ CallsIdle
    /\ ApiIdle

SpecDimensions == InitDimensions /\ [][NextPivot]_vars

(***************************************************************************)
(* The query assembler as a state machine: a descriptor is resolved with   *)
(* a parameter mapping, and a resolved descriptor is resolved once more    *)
(* with the empty mapping.                                                 *)
(***************************************************************************)
\* the pivot transformer before any call
PivotIdle ==
    /\ data = <<>>
    /\ pivot_config \in {c \in PivotConfigs : c.max_columns = 0 /\ c.show_totals /\ c.show_grand_total
                                               /\ c.measures[1].type = "sum"}
    /\ pivot_result = PivotPending

InitSubst ==
    /\ pipeline \in Pipelines
    /\ parameters \in ParamMappings
    /\ subst_result = SubstPending
    /\ resubst_result = SubstPending
    /\ PivotIdle
    /\ ValidateIdle
    /\ TableIdle
    /\ SubreportsIdle
    /\ GenerateIdle
    /\ CallsIdle
    /\ ApiIdle

SubstituteParameters ==
    /\ subst_result.status = "pending"
    /\ subst_result' = SubstituteParametersResult(pipeline, parameters)
    /\ UNCHANGED <<pipeline, parameters, resubst_result, except_subst>>

SubstituteAgain ==
    /\ subst_result.status = "ok"
    /\ resubst_result.status = "pending"
    /\ resubst_result' = SubstituteParametersResult(subst_result.value, <<>>)
    /\ UNCHANGED <<pipeline, parameters, subst_result, except_subst>>

NextSubst == SubstituteParameters \/ SubstituteAgain

SpecSubst == InitSubst /\ [][NextSubst]_vars

(***************************************************************************)
(* The parameter validator as a state machine.                             *)
(***************************************************************************)
InitValidate ==
    /\ parameter_definitions \in DefinitionLists
    /\ supplied_parameters \in SuppliedMappings
    /\ validate_result = ValidatePending
    /\ PivotIdle
    /\ SubstIdle
    /\ TableIdle
    /\ SubreportsIdle
    /\ GenerateIdle
    /\ CallsIdle
    /\ ApiIdle

ValidateParameters ==
    /\ validate_result.status = "pending"
    /\ validate_result' = ValidateParametersResult(supplied_parameters, parameter_definitions)
    /\ UNCHANGED <<parameter_definitions, supplied_parameters, except_validate>>

NextValidate == ValidateParameters

SpecValidate == InitValidate /\ [][NextValidate]_vars

(***************************************************************************)
(* The table transformer as a state machine.                               *)
(***************************************************************************)
InitTable ==
    /\ table_data \in SeqsUpTo(TableRecords, MaxRows)
    /\ table_columns \in TableColumnLists
    /\ table_result = TablePending
    /\ PivotIdle
    /\ SubstIdle
    /\ ValidateIdle
    /\ SubreportsIdle
    /\ GenerateIdle
    /\ CallsIdle
    /\ ApiIdle

TransformTableData ==
    /\ table_result.status = "pending"
    /\ table_result' = TransformTableDataResult(table_data, table_columns)
    /\ UNCHANGED <<table_data, table_columns, except_table>>

NextTable == TransformTableData

SpecTable == InitTable /\ [][NextTable]_vars

(***************************************************************************)
(* The subreport processor as a state machine: process_multiple_subreports *)
(* is called once, then create_subreport_summary on the list it returned.  *)
(***************************************************************************)
InitSubreports ==
    /\ sr_configs \in SeqsUpTo(SubreportConfigs, MaxSubreports)
    /\ sr_context \in ParentContexts
    /\ source_connected \in BOOLEAN
    /\ source_replies \in [1..Len(sr_configs) -> SourceReplies]
    /\ source_calls = 0
    /\ subreports_result = SubreportsPending
    /\ subreport_summary = SummaryPending
    /\ PivotIdle
    /\ SubstIdle
    /\ ValidateIdle
    /\ TableIdle
    /\ GenerateIdle
    /\ CallsIdle
    /\ ApiIdle

\* the list r.subreports is returned after r.calls aggregations
Returned(r) ==
    /\ subreports_result' = [status |-> "done", subreports |-> r.subreports,
                             queries |-> r.queries]
    /\ source_calls' = source_calls + r.calls

ProcessSubreports ==
    /\ subreports_result.status = "pending"
    /\ Returned(ProcessMultipleSubreports(sr_configs, sr_context, source_connected, source_replies))
    /\ UNCHANGED <<sr_configs, sr_context, source_connected, source_replies,
                   subreport_summary, except_subreport>>

SummarizeSubreports ==
    /\ subreports_result.status = "done"
    /\ subreport_summary.status = "pending"
    /\ subreport_summary' =
          [status |-> "done"] @@ CreateSubreportSummary(subreports_result.subreports)
    /\ UNCHANGED <<sr_configs, sr_context, source_connected, source_replies,
                   source_calls, subreports_result, except_subreport>>

NextSubreports == ProcessSubreports \/ SummarizeSubreports

SpecSubreports == InitSubreports /\ [][NextSubreports]_vars

(***************************************************************************)
(* Requests of generate_report as a state machine.  gen_pc is the call a   *)
(* request makes next; steps of different requests interleave.             *)
(***************************************************************************)
InitGenerate ==
    /\ gen_config \in ReportConfigs
    /\ gen_supplied \in [Requests -> RequestParameters]
    /\ gen_pc = [r \in Requests |-> "start"]
    /\ gen_error = [r \in Requests |-> ""]
    /\ gen_outcome = [r \in Requests |-> "none"]
    /\ gen_validated = [r \in Requests |-> <<>>]
    /\ gen_client = [r \in Requests |-> NoClient]
    /\ gen_sent = [r \in Requests |-> 0]
    /\ gen_rendered = [r \in Requests |-> FALSE]
    /\ gen_subreports = [r \in Requests |-> <<>>]
    /\ client_current = NoClient
    /\ client_connected = FALSE
    /\ clients = <<>>
    /\ PivotIdle
    /\ SubstIdle
    /\ ValidateIdle
    /\ TableIdle
    /\ SubreportsIdle
    /\ CallsIdle
    /\ ApiIdle

\* an exception outside the inner try: generate_report logs it and raises
RaiseOutside(r, error) ==
    /\ gen_pc' = [gen_pc EXCEPT ![r] = "done"]
    /\ gen_error' = [gen_error EXCEPT ![r] = error]
    /\ gen_outcome' = [gen_outcome EXCEPT ![r] = "raised"]

\* an exception inside the inner try: the finally clause runs next
RaiseInside(r, error) ==
    /\ gen_pc' = [gen_pc EXCEPT ![r] = "finally"]
    /\ gen_error' = [gen_error EXCEPT ![r] = error]
    /\ UNCHANGED gen_outcome

Goto(r, pc) ==
    /\ gen_pc' = [gen_pc EXCEPT ![r] = pc]
    /\ UNCHANGED <<gen_error, gen_outcome>>

\* mutant of IsConnected: the _connected flag is not looked at
IsConnectedNoFlag(ping_ok) == client_current # NoClient /\ ping_ok

\* MongoDBClient.is_connected, given whether the server answers the ping
IsConnected(ping_ok) == client_connected /\ client_current # NoClient /\ ping_ok

\* the outcome v of validate_parameters: its error is raised, or the validated
\* parameters are kept
AfterValidation(r, v) ==
    IF v.status = "error"
    THEN RaiseOutside(r, "validation") /\ UNCHANGED gen_validated
    ELSE /\ Goto(r, "connect")
         /\ gen_validated' = [gen_validated EXCEPT ![r] = v.validated]

\* load_report_config and validate_parameters
LoadAndValidate(r) ==
    /\ gen_pc[r] = "start"
    /\ \E found \in BOOLEAN :
          IF ~found
          THEN RaiseOutside(r, "Report configuration not found") /\ UNCHANGED gen_validated
          ELSE AfterValidation(r, ValidateParametersResult(gen_supplied[r], gen_config.parameters))
    /\ UNCHANGED <<gen_config, gen_supplied, gen_client, gen_sent, gen_rendered, gen_subreports,
                   client_vars, except_generate>>

\* if not self.mongodb_client.connect(): raise ConnectionError
Connect(r) ==
    /\ gen_pc[r] = "connect"
    /\ \E outcome \in ConnectOutcomes :
          IF outcome = "constructor_raises"
          THEN /\ client_connected' = FALSE
               /\ UNCHANGED <<client_current, clients, gen_client>>
               /\ RaiseOutside(r, "Failed to connect to MongoDB")
          ELSE /\ clients' = Append(clients, [open |-> TRUE, created_by |-> r])
               /\ client_current' = Len(clients) + 1
               /\ gen_client' = [gen_client EXCEPT ![r] = Len(clients) + 1]
               /\ client_connected' = (outcome = "connected")
               /\ IF outcome = "connected" THEN Goto(r, "main_query")
                  ELSE RaiseOutside(r, "Failed to connect to MongoDB")
    /\ UNCHANGED <<gen_config, gen_supplied, gen_validated, gen_sent, gen_rendered,
                   gen_subreports, except_generate>>

\* the outcome q of the main query: is_connected, when it was called, leaves
\* its answer in _connected; main_data is kept or the exception goes to finally
AfterMainQuery(r, connected, q) ==
    /\ client_connected' = IF q.asked THEN connected ELSE client_connected
    /\ gen_sent' = [gen_sent EXCEPT ![r] = @ + q.sent]
    /\ IF q.ok THEN Goto(r, "process") ELSE RaiseInside(r, q.error)

\* self.query_executor.execute_report_query for the main pipeline
MainQuery(r) ==
    /\ gen_pc[r] = "main_query"
    /\ \E ping_ok \in BOOLEAN, reply \in SourceReplies :
          AfterMainQuery(r, IsConnected(ping_ok),
                         ExecuteReportQuery(gen_config.pipeline, gen_validated[r],
                                            IsConnected(ping_ok), reply))
    /\ UNCHANGED <<gen_config, gen_supplied, gen_validated, gen_client, gen_rendered,
                   gen_subreports, client_current, clients, except_generate>>

\* self._process_main_data: the transformers return or raise
ProcessMainData(r) ==
    /\ gen_pc[r] = "process"
    /\ \E raises \in BOOLEAN :
          IF raises THEN RaiseInside(r, "transform") ELSE Goto(r, "subreports")
    /\ UNCHANGED <<gen_config, gen_supplied, gen_validated, gen_client, gen_sent, gen_rendered,
                   gen_subreports, client_vars, except_generate>>

\* the list res.subreports of _process_subreports is kept
AfterSubreports(r, connected, res) ==
    /\ gen_subreports' = [gen_subreports EXCEPT ![r] = res.subreports]
    /\ gen_sent' = [gen_sent EXCEPT ![r] = @ + res.calls]
    /\ client_connected' = IF res.asked THEN connected ELSE client_connected

\* self._process_subreports
ProcessReportSubreports(r) ==
    /\ gen_pc[r] = "subreports"
    /\ \E ping_ok \in BOOLEAN, replies \in [1..Len(gen_config.subreports) -> SourceReplies] :
          AfterSubreports(r, IsConnected(ping_ok),
                          ProcessSubreportsOf(gen_config, gen_validated[r],
                                              IsConnected(ping_ok), replies))
    /\ Goto(r, "render")
    /\ UNCHANGED <<gen_config, gen_supplied, gen_validated, gen_client, gen_rendered,
                   client_current, clients, except_generate>>

\* self.pdf_renderer.render_report returns or raises
Render(r) ==
    /\ gen_pc[r] = "render"
    /\ \E raises \in BOOLEAN :
          IF raises
          THEN RaiseInside(r, "render") /\ UNCHANGED gen_rendered
          ELSE /\ gen_rendered' = [gen_rendered EXCEPT ![r] = TRUE]
               /\ gen_pc' = [gen_pc EXCEPT ![r] = "finally"]
               /\ UNCHANGED <<gen_error, gen_outcome>>
    /\ UNCHANGED <<gen_config, gen_supplied, gen_validated, gen_client, gen_sent,
                   gen_subreports, client_vars, except_generate>>

\* finally: self.mongodb_client.disconnect(); then the return or the raise
Finally(r) ==
    /\ gen_pc[r] = "finally"
    /\ IF client_current # NoClient
       THEN /\ clients' = [clients EXCEPT ![client_current].open = FALSE]
            /\ client_connected' = FALSE
       ELSE UNCHANGED <<clients, client_connected>>
    /\ gen_pc' = [gen_pc EXCEPT ![r] = "done"]
    /\ gen_outcome' = [gen_outcome EXCEPT ![r] = IF gen_error[r] = "" THEN "returned" ELSE "raised"]
    /\ UNCHANGED <<gen_config, gen_supplied, gen_error, gen_validated, gen_client, gen_sent,
                   gen_rendered, gen_subreports, client_current, except_generate>>

NextGenerate ==
    \E r \in Requests :
        \/ LoadAndValidate(r)
        \/ Connect(r)
        \/ MainQuery(r)
        \/ ProcessMainData(r)
        \/ ProcessReportSubreports(r)
        \/ Render(r)
        \/ Finally(r)

SpecGenerate == InitGenerate /\ [][NextGenerate]_vars

(***************************************************************************)
(* One MongoDBClient called directly.                                      *)
(***************************************************************************)
InitClient ==
    /\ client_calls = <<>>
    /\ GenerateIdle
    /\ PivotIdle
    /\ SubstIdle
    /\ ValidateIdle
    /\ TableIdle
    /\ SubreportsIdle
    /\ ApiIdle

\* the call is added to the list of calls
Called(op, outcome, sent) ==
    client_calls' = Append(client_calls, [op |-> op, connected_before |-> client_connected,
                                          outcome |-> outcome, sent |-> sent])

\* MongoDBClient.connect
ClientConnect ==
    /\ Len(client_calls) < MaxCalls
    /\ \E outcome \in ConnectOutcomes :
          /\ IF outcome = "constructor_raises"
             THEN UNCHANGED <<client_current, clients>>
             ELSE /\ clients' = Append(clients, [open |-> TRUE, created_by |-> "direct"])
                  /\ client_current' = Len(clients) + 1
          /\ client_connected' = (outcome = "connected")
          /\ Called("connect", IF outcome = "connected" THEN "True" ELSE "False", 0)
    /\ UNCHANGED <<request_vars, except_client>>

\* MongoDBClient.disconnect
ClientDisconnect ==
    /\ Len(client_calls) < MaxCalls
    /\ IF client_current # NoClient
       THEN /\ clients' = [clients EXCEPT ![client_current].open = FALSE]
            /\ client_connected' = FALSE
       ELSE UNCHANGED <<clients, client_connected>>
    /\ Called("disconnect", "None", 0)
    /\ UNCHANGED <<client_current, request_vars, except_client>>

\* execute_aggregation and execute_find after is_connected() answered
\* connected: ConnectionError, or the query is sent and raises or returns
Executed(op, connected, reply) ==
    /\ client_connected' = (client_connected /\ (client_current = NoClient \/ connected))
    /\ Called(op,
              IF ~connected THEN "ConnectionError"
              ELSE IF reply.fails THEN "raised" ELSE "returned",
              IF connected THEN 1 ELSE 0)

\* MongoDBClient.execute_aggregation
ClientExecuteAggregation ==
    /\ Len(client_calls) < MaxCalls
    /\ \E ping_ok \in BOOLEAN, reply \in SourceReplies :
          Executed("execute_aggregation", IsConnected(ping_ok), reply)
    /\ UNCHANGED <<client_current, clients, request_vars, except_client>>

\* MongoDBClient.execute_find
ClientExecuteFind ==
    /\ Len(client_calls) < MaxCalls
    /\ \E ping_ok \in BOOLEAN, reply \in SourceReplies :
          Executed("execute_find", IsConnected(ping_ok), reply)
    /\ UNCHANGED <<client_current, clients, request_vars, except_client>>

NextClient ==
    \/ ClientConnect
    \/ ClientDisconnect
    \/ ClientExecuteAggregation
    \/ ClientExecuteFind

SpecClient == InitClient /\ [][NextClient]_vars

(***************************************************************************)
(* Requests served by the REST API, one after the other.                   *)
(***************************************************************************)
InitApi ==
    /\ api_generator = NoGenerator
    /\ api_requests = <<>>
    /\ PivotIdle
    /\ SubstIdle
    /\ ValidateIdle
    /\ TableIdle
    /\ SubreportsIdle
    /\ GenerateIdle
    /\ CallsIdle

\* an endpoint (or the startup handler) that calls get_generator(): the
\* locale is the default of the argument
DefaultLocaleRequest ==
    /\ Len(api_requests) < MaxApiRequests
    /\ api_generator' = GetGenerator("en_US")
    /\ api_requests' = Append(api_requests, [endpoint |-> "health", locale |-> "en_US",
                                             used |-> GetGenerator("en_US")])
    /\ UNCHANGED except_api

\* render_report and the other endpoints that call get_generator(params.locale)
RenderReport ==
    /\ Len(api_requests) < MaxApiRequests
    /\ \E locale \in Locales :
          /\ api_generator' = GetGenerator(locale)
          /\ api_requests' = Append(api_requests, [endpoint |-> "render", locale |-> locale,
                                                   used |-> GetGenerator(locale)])
    /\ UNCHANGED except_api

NextApi == DefaultLocaleRequest \/ RenderReport

SpecApi == InitApi /\ [][NextApi]_vars

(***************************************************************************)
(* Properties of the pivot transformer.                                    *)
(***************************************************************************)
MaxOf(S) == CHOOSE x \in S : \A y \in S : y <= x

TotalsRange == 0..((MaxRecords + 1) * MaxOf(MeasureNumbers))

\* the number a formatted total stands for
NumberOf(text) == CHOOSE n \in TotalsRange : ToString(n) = text

RECURSIVE SumOfRowTotals(_, _, _)
SumOfRowTotals(row_totals, name, i) ==
    IF i > Len(row_totals) THEN 0
    ELSE NumberOf(row_totals[i].totals[name]) + SumOfRowTotals(row_totals, name, i + 1)

RECURSIVE SumOfColumnTotals(_, _, _)
SumOfColumnTotals(column_totals, name, keys) ==
    IF keys = {} THEN 0
    ELSE LET c == CHOOSE c \in keys : TRUE
         IN  NumberOf(column_totals[c][name]) + SumOfColumnTotals(column_totals, name, keys \ {c})

\* the distinct non-null column keys of the data (one column field path)
DistinctColumnKeys == {data[i][pivot_config.columns[1]] : i \in 1..Len(data)} \ {None}

DistinctRowKeys == {data[i][pivot_config.rows[1]] : i \in 1..Len(data)} \ {None}

\* the sum of the numeric values of field over the records selected by Sel(i)
RECURSIVE SumWhere(_, _, _)
SumWhere(Sel(_), field, i) ==
    IF i > Len(data) THEN 0
    ELSE (IF Sel(i) /\ data[i][field].k = "num" THEN data[i][field].n ELSE 0)
         + SumWhere(Sel, field, i + 1)

RowIndex(r) == CHOOSE ri \in 1..Len(pivot_result.pivot_table) : pivot_result.pivot_table[ri].row_key = r

CellOf(r, c) == pivot_result.pivot_table[RowIndex(r)].cells[c]

AllDimensionsResolved ==
    \A i \in 1..Len(data) :
        /\ \A j \in 1..Len(pivot_config.rows) : data[i][pivot_config.rows[j]] # None
        /\ \A j \in 1..Len(pivot_config.columns) : data[i][pivot_config.columns[j]] # None

\* C2: when every record resolves every dimension field, every retained
\* (row key, column key) pair has a cell; a sum measure's value in it is the sum of
\* the numeric values of the records with that row key and column key; a cell no
\* record contributes a number to is the empty accumulator (read as 0), and a
\* non-numeric value does not abort the transform.
C2_CellsAreSums ==
    (pivot_result.status # "pending" /\ AllDimensionsResolved) =>
        /\ pivot_result.status = "ok"
        /\ Range(pivot_result.row_values) = DistinctRowKeys
        /\ \A r \in Range(pivot_result.row_values) :
               /\ DOMAIN pivot_result.pivot_table[RowIndex(r)].cells = Range(pivot_result.column_values)
               /\ \A c \in Range(pivot_result.column_values) :
                    \A mi \in 1..Len(pivot_config.measures) :
                        LET measure == pivot_config.measures[mi]
                            InCell(i) == data[i][pivot_config.rows[1]] = r
                                         /\ data[i][pivot_config.columns[1]] = c
                            contributes == \E i \in 1..Len(data) :
                                              InCell(i) /\ data[i][measure.field].k = "num"
                        IN  measure.type = "sum" =>
                                /\ CellGet(CellOf(r, c), measure.name)
                                       = SumWhere(InCell, measure.field, 1)
                                /\ ~contributes => CellOf(r, c) = EmptyMap

\* C2 witness: a full 2 x 2 matrix of a sum measure with a filled cell, an empty
\* cell and a record whose measure value is not numeric
C2_Witness ==
    /\ pivot_result.status = "ok"
    /\ AllDimensionsResolved
    /\ pivot_config.measures[1].type = "sum"
    /\ Len(pivot_result.row_values) = 2
    /\ Len(pivot_result.column_values) = 2
    /\ \E i \in 1..Len(data) : data[i]["v"] = Str("abc")
    /\ \E r \in Range(pivot_result.row_values), c \in Range(pivot_result.column_values) :
           CellGet(CellOf(r, c), "total") > 0
    /\ \E r \in Range(pivot_result.row_values), c \in Range(pivot_result.column_values) :
           CellOf(r, c) = EmptyMap

\* C3: with max_columns = N and more than N distinct column keys, the result has
\* exactly the N smallest distinct column keys in ascending order, and a record
\* whose column key is not among them adds to no cell and to no total.
C3_TruncatedColumns ==
    (pivot_result.status # "pending" /\ Cardinality(DistinctColumnKeys) > pivot_config.max_columns) =>
        LET cv == pivot_result.column_values
            kept == Range(cv)
            name == pivot_config.measures[1].name
            field == pivot_config.measures[1].field
            Kept(i) == data[i][pivot_config.columns[1]] \in kept
                       /\ data[i][pivot_config.rows[1]] # None
        IN  /\ pivot_result.status = "ok"
            /\ Len(cv) = pivot_config.max_columns
            /\ kept \subseteq DistinctColumnKeys
            /\ \A i, j \in 1..Len(cv) : i < j => ValueLess(cv[i], cv[j])
            /\ \A c \in kept, d \in DistinctColumnKeys \ kept : ValueLess(c, d)
            /\ \A ri \in 1..Len(pivot_result.pivot_table) :
                   LET row == pivot_result.pivot_table[ri]
                       InRow(i) == Kept(i) /\ data[i][pivot_config.rows[1]] = row.row_key
                   IN  /\ DOMAIN row.cells = kept
                       /\ \A c \in kept :
                            LET InCell(i) == data[i][pivot_config.rows[1]] = row.row_key
                                             /\ data[i][pivot_config.columns[1]] = c
                            IN  CellGet(row.cells[c], name) = SumWhere(InCell, field, 1)
                       /\ NumberOf(row.row_totals[name]) = SumWhere(InRow, field, 1)
            /\ pivot_config.show_totals =>
                   /\ DOMAIN pivot_result.totals.column_totals \subseteq kept
                   /\ NumberOf(pivot_result.totals.grand_totals[name]) = SumWhere(Kept, field, 1)

\* C3 witness: two distinct column keys, max_columns = 1, and the record of the
\* dropped column carries a number
C3_Witness ==
    /\ pivot_result.status = "ok"
    /\ pivot_config.max_columns = 1
    /\ pivot_config.show_totals
    /\ Cardinality(DistinctColumnKeys) = 2
    /\ pivot_result.column_values = <<Str("P")>>
    /\ \E i \in 1..Len(data) :
           data[i]["b"] = Str("Q") /\ data[i]["a"] # None /\ data[i]["v"].k = "num"

\* C4: row totals, column totals and grand totals are produced only when
\* show_totals is set, and grand totals only when show_grand_total is set as well.
C4_TotalsOnlyWhenFlagged ==
    pivot_result.status = "ok" =>
        /\ ~pivot_config.show_totals =>
               /\ pivot_result.totals = NoTotals
               /\ \A ri \in 1..Len(pivot_result.pivot_table) :
                      pivot_result.pivot_table[ri].row_totals = EmptyMap
        /\ ~pivot_config.show_grand_total =>
               pivot_result.totals.grand_totals = EmptyMap

(***************************************************************************)
(* Properties of the query assembler.                                      *)
(***************************************************************************)
\* a substitution token {{...}} occurs in the characters
HasToken(s) ==
    \E i, j \in 1..Len(s) :
        /\ i + 2 <= j /\ j + 1 <= Len(s)
        /\ s[i] = "{" /\ s[i + 1] = "{" /\ s[j] = "}" /\ s[j + 1] = "}"

\* a token occurs in a string or a key of the tree
RECURSIVE NodeHasToken(_)
NodeHasToken(v) ==
    \/ v.t \in {"str", "pair"} /\ HasToken(v.s)
    \/ \E i \in 1..Len(v.kids) : NodeHasToken(v.kids[i])

\* res has the stages and keys of orig and differs only in fields holding a token
RECURSIVE SameShape(_, _)
SameShape(orig, res) ==
    IF orig.t = "str" /\ HasToken(orig.s) THEN TRUE
    ELSE IF orig.t \in {"arr", "obj", "pair"}
         THEN /\ res.t = orig.t
              /\ res.s = orig.s
              /\ Len(res.kids) = Len(orig.kids)
              /\ \A i \in 1..Len(orig.kids) : SameShape(orig.kids[i], res.kids[i])
    ELSE res = orig

Missing == Node("missing", <<>>, 0, <<>>)

\* v[key] of a dict node, Missing when v has no such key
Lookup(v, key) ==
    IF v.t = "obj" /\ \E i \in 1..Len(v.kids) : v.kids[i].s = key
    THEN v.kids[CHOOSE i \in 1..Len(v.kids) : v.kids[i].s = key].kids[1]
    ELSE Missing

\* descriptor[0]["$match"]["status"]
StatusField(v) ==
    IF v.t = "arr" /\ Len(v.kids) > 0
    THEN Lookup(Lookup(v.kids[1], K_match), K_status)
    ELSE Missing

\* C5: a successful substitution leaves no token {{...}} in any string of the
\* resolved descriptor (otherwise the substitution fails).
C5_NoTokenRemains ==
    subst_result.status = "ok" => ~NodeHasToken(subst_result.value)

\* C6: a descriptor without a token is returned structurally identical whatever
\* the parameter mapping is, and resolving a resolved descriptor once more with
\* the empty mapping returns it unchanged.
C6_NoTokenRoundTrip ==
    /\ (subst_result.status # "pending" /\ ~NodeHasToken(pipeline)) =>
           subst_result = [status |-> "ok", value |-> pipeline]
    /\ resubst_result.status # "pending" =>
           resubst_result = [status |-> "ok", value |-> subst_result.value]

\* C6 witness: a token-free descriptor holding a quote, resolved with two bound
\* parameters and then once more with the empty mapping
C6_Witness ==
    /\ resubst_result.status = "ok"
    /\ ~NodeHasToken(pipeline)
    /\ Len(parameters) = 2
    /\ parameters[1].value.t = "str"
    /\ \E k \in 1..Len(JsonDumps(pipeline)) : JsonDumps(pipeline)[k] = "\\"

\* C7: a successful substitution returns a list of dicts with the stages and
\* the keys of the input; only the fields that held a token differ.
C7_StructurePreserved ==
    subst_result.status = "ok" =>
        /\ subst_result.value.t = "arr"
        /\ \A i \in 1..Len(subst_result.value.kids) : subst_result.value.kids[i].t = "obj"
        /\ SameShape(pipeline, subst_result.value)

\* C8: a str, int or bool bound to the field authored as "{{status}}" resolves
\* to that value itself: a str to the str, an int to a number, a bool to a boolean.
C8_ScalarNaturalLiteral ==
    \A i \in 1..Len(parameters) :
        (/\ subst_result.status # "pending"
         /\ parameters[i].name = K_status
         /\ parameters[i].value.t \in {"str", "num", "bool"}
         /\ StatusField(pipeline) = JStr(Token(K_status))) =>
            /\ subst_result.status = "ok"
            /\ StatusField(subst_result.value) = parameters[i].value

(***************************************************************************)
(* Properties of the parameter validator.                                  *)
(***************************************************************************)
\* ('false', '0', 'no', 'off'), the negatives the specification lists
FalsyWords == {<<"f", "a", "l", "s", "e">>, <<"0">>, <<"n", "o">>, <<"o", "f", "f">>}

\* the value validate_result binds to the name, Missing when it binds none
BoundValue(param_name) ==
    IF \E i \in 1..Len(validate_result.validated) : validate_result.validated[i].name = param_name
    THEN validate_result.validated[CHOOSE i \in 1..Len(validate_result.validated) :
                                       validate_result.validated[i].name = param_name].value
    ELSE Missing

\* the supplied value of the j-th declared parameter is rejected by its conversion
ConversionFails(j) ==
    /\ parameter_definitions[j].name \in DOMAIN supplied_parameters
    /\ ~Convert(parameter_definitions[j].type,
                supplied_parameters[parameter_definitions[j].name]).ok

C10_BooleanStrings ==
    \A i \in 1..Len(parameter_definitions) :
        LET param_def == parameter_definitions[i]
        IN  (/\ validate_result.status # "pending"
             /\ param_def.type = "boolean"
             /\ param_def.name \in DOMAIN supplied_parameters
             /\ supplied_parameters[param_def.name].t = "str") =>
                LET word == Lower(supplied_parameters[param_def.name].s)
                IN  /\ (word \in TruthyWords /\ validate_result.status = "ok") =>
                            BoundValue(param_def.name) = JBool(TRUE)
                    /\ (word \in FalsyWords /\ validate_result.status = "ok") =>
                            BoundValue(param_def.name) = JBool(FALSE)
                    /\ word \notin (TruthyWords \cup FalsyWords) =>
                            /\ validate_result.status = "error"
                            /\ validate_result.error.kind = "invalid"

\* C11: when validate_parameters returns, every declared optional parameter
\* that is absent from the supplied values is bound to its default if it has
\* one (0, False and "" included) and is left unbound if it has none.
C11_DefaultsBound ==
    \A i \in 1..Len(parameter_definitions) :
        LET param_def == parameter_definitions[i]
        IN  (/\ validate_result.status = "ok"
             /\ ~param_def.required
             /\ param_def.name \notin DOMAIN supplied_parameters) =>
                /\ param_def.default # JNull =>
                        BoundValue(param_def.name) = param_def.default
                /\ param_def.default = JNull =>
                        \A k \in 1..Len(validate_result.validated) :
                            validate_result.validated[k].name # param_def.name

\* C11 witness: the call has returned with an absent optional parameter bound
\* to the falsy default 0 and another absent optional parameter left unbound
C11_Witness ==
    /\ validate_result.status = "ok"
    /\ Len(parameter_definitions) = 2
    /\ DOMAIN supplied_parameters = {}
    /\ \A i \in 1..2 : ~parameter_definitions[i].required
    /\ parameter_definitions[1].name = P_flag
    /\ parameter_definitions[1].default = JNum(0)
    /\ parameter_definitions[2].default = JNull
    /\ validate_result.validated = <<[name |-> P_flag, value |-> JNum(0)]>>

(***************************************************************************)
(* Properties of the table transformer.                                    *)
(***************************************************************************)
\* what the first k parts of a path lead to in a record, by successive lookups;
\* Missing once a part is absent or the value reached is not a mapping
RECURSIVE Follow(_, _, _)
Follow(v, parts, k) == IF k = 0 THEN v ELSE Lookup(Follow(v, parts, k - 1), parts[k])

Resolved(record, field_path) ==
    Follow(record, SplitFrom(field_path, 1), Len(SplitFrom(field_path, 1)))

PathUnresolved(record, field_path) == Resolved(record, field_path) = Missing

\* every row has exactly one cell per column field, and there is a row per record
OneCellPerColumnField ==
    /\ Len(table_result.rows) = Len(table_data)
    /\ table_result.row_count = Len(table_data)
    /\ \A index \in 1..Len(table_data) :
          DOMAIN table_result.rows[index] =
              {table_columns[i].field : i \in 1..Len(table_columns)}

NullCell(cell) == cell.raw_value = JNull /\ cell.formatted_value = <<>>

\* C12 as stated: once transform_table_data has run it has not raised, every
\* row has one cell per column field, and for every record and every column
\* an unresolved field path gives a cell with raw value null and formatted
\* value "".
C12_UnresolvedPathIsNull ==
    table_result.status # "pending" =>
        /\ table_result.status = "ok"
        /\ OneCellPerColumnField
        /\ \A index \in 1..Len(table_data) : \A i \in 1..Len(table_columns) :
              PathUnresolved(table_data[index], table_columns[i].field) =>
                  NullCell(table_result.rows[index][table_columns[i].field])

\* C12 amended: the same for every column whose field is not "No"; the cell of
\* a column whose field is "No" holds the 1-based position of the record.
C12_UnresolvedPathIsNullExceptNo ==
    table_result.status # "pending" =>
        /\ table_result.status = "ok"
        /\ OneCellPerColumnField
        /\ \A index \in 1..Len(table_data) : \A i \in 1..Len(table_columns) :
              LET cell == table_result.rows[index][table_columns[i].field]
              IN  /\ (/\ table_columns[i].field # F_No
                      /\ PathUnresolved(table_data[index], table_columns[i].field)) =>
                          NullCell(cell)
                  /\ table_columns[i].field = F_No => cell.raw_value = JNum(index)

\* C12 witness: one record lacks "a", the other holds a number under "a", and
\* the column "a.b" has a null cell in both rows
C12_Witness ==
    /\ table_result.status = "ok"
    /\ Len(table_data) = 2
    /\ Lookup(table_data[1], F_a) = Missing
    /\ Lookup(table_data[2], F_a) = JNum(5)
    /\ \E i \in 1..Len(table_columns) : table_columns[i].field = F_a_b
    /\ \A index \in 1..2 : NullCell(table_result.rows[index][F_a_b])

\* the records whose value under the path parses as a number
ParseableRecords(field_path) ==
    {index \in 1..Len(table_data) :
        LET v == Resolved(table_data[index], field_path)
        IN  \/ v.t \in {"num", "bool"}
            \/ v.t = "str" /\ v.s # <<>> /\ \A c \in Range(v.s) : IsDigit(c)}

ParsedNumber(index, field_path) ==
    LET v == Resolved(table_data[index], field_path)
    IN  IF v.t = "str" THEN ScanDigits(v.s, 1, 0).n ELSE v.n

RECURSIVE SumParsed(_, _)
SumParsed(indices, field_path) ==
    IF indices = {} THEN 0
    ELSE LET index == CHOOSE x \in indices : TRUE
         IN  ParsedNumber(index, field_path) + SumParsed(indices \ {index}, field_path)

\* C13: for every column of numeric kind the totals are taken over exactly the
\* records whose resolved value parses as a number: count is their number, sum
\* their sum, min and max their extremes and avg * count = sum; a column
\* without such a record has no totals.
C13_TotalsOverParseable ==
    table_result.status = "ok" =>
        \A i \in 1..Len(table_columns) :
            LET field == table_columns[i].field
                over == ParseableRecords(field)
            IN  table_columns[i].type \in NumericTypes =>
                    /\ field \in DOMAIN table_result.totals <=> over # {}
                    /\ over # {} =>
                        LET totals == table_result.totals[field]
                        IN  /\ totals.count = Cardinality(over)
                            /\ totals.sum = SumParsed(over, field)
                            /\ \E x \in over : totals.min = ParsedNumber(x, field)
                            /\ \A x \in over : totals.min <= ParsedNumber(x, field)
                            /\ \E x \in over : totals.max = ParsedNumber(x, field)
                            /\ \A x \in over : ParsedNumber(x, field) <= totals.max
                            /\ totals.avg.den > 0
                            /\ totals.avg.num * totals.count = totals.sum * totals.avg.den

\* C13 witness: of two records one has no number under "a.b"; the totals of the
\* numeric column "a.b" count the other one only
C13_Witness ==
    /\ table_result.status = "ok"
    /\ Len(table_data) = 2
    /\ \E i \in 1..Len(table_columns) :
          table_columns[i].field = F_a_b /\ table_columns[i].type = "number"
    /\ Cardinality(ParseableRecords(F_a_b)) = 1
    /\ F_a_b \in DOMAIN table_result.totals
    /\ table_result.totals[F_a_b].count = 1
    /\ table_result.totals[F_a_b].avg = [num |-> 2, den |-> 1]

(***************************************************************************)
(* Properties of the subreport processor.                                  *)
(***************************************************************************)
\* the pipeline of the i-th subreport does not resolve with the parameters
\* that were handed to its query
ResolutionFails(i) ==
    SubstituteParametersResult(sr_configs[i].pipeline,
                               subreports_result.queries[i].parameters).status = "error"

\* the data source fails the i-th subreport: no connection, or the aggregation raises
SourceFails(i) == ~source_connected \/ source_replies[i].fails

SubreportFails(i) == ResolutionFails(i) \/ SourceFails(i)

\* C14: process_multiple_subreports returns one result per subreport spec, in
\* the order of the specs; the result of a subreport whose processing fails has
\* an error field, no rows and row count 0, and the subreports after it are
\* processed as if it had not failed.
C14_OneResultPerSubreport ==
    subreports_result.status = "done" =>
        /\ Len(subreports_result.subreports) = Len(sr_configs)
        /\ \A i \in 1..Len(sr_configs) :
              LET subreport == subreports_result.subreports[i]
              IN  /\ subreport.name = sr_configs[i].name
                  /\ subreport.template = sr_configs[i].template
                  /\ SubreportFails(i) =>
                        /\ "error" \in DOMAIN subreport
                        /\ subreport.data = <<>>
                        /\ subreport.row_count = 0
                  /\ ~SubreportFails(i) =>
                        /\ "error" \notin DOMAIN subreport
                        /\ Len(subreport.data) = Len(source_replies[i].docs)
                        /\ subreport.row_count = Len(source_replies[i].docs)

\* C14 witness: the first of two subreports fails in the data source and the
\* second one is returned with its two rows
C14_Witness ==
    /\ subreports_result.status = "done"
    /\ Len(sr_configs) = 2
    /\ source_connected
    /\ source_replies[1].fails
    /\ "error" \in DOMAIN subreports_result.subreports[1]
    /\ "error" \notin DOMAIN subreports_result.subreports[2]
    /\ subreports_result.subreports[2].row_count = 2

ContextNames == {sr_context[j].name : j \in 1..Len(sr_context)}

\* C15: the parameters handed to the query of a subreport are the declared
\* context parameter names that are keys of the parent context, each once and
\* with the parent's value; a declared name the parent context lacks is not
\* bound and the subreport fails only if its resolution or the data source
\* fails.
C15_ContextParametersPassed ==
    subreports_result.status = "done" =>
        \A i \in 1..Len(sr_configs) :
            LET passed == subreports_result.queries[i].parameters
            IN  /\ {passed[k].name : k \in 1..Len(passed)} =
                       Range(sr_configs[i].context_params) \cap ContextNames
                /\ \A k \in 1..Len(passed) : \E j \in 1..Len(sr_context) : sr_context[j] = passed[k]
                /\ \A k, h \in 1..Len(passed) : passed[k].name = passed[h].name => k = h
                /\ "error" \in DOMAIN subreports_result.subreports[i] => SubreportFails(i)

\* C15 witness: a subreport declares status and customerId, the parent context
\* has a status, no customerId and an undeclared key; only status is passed and
\* the subreport succeeds
C15_Witness ==
    /\ subreports_result.status = "done"
    /\ Len(sr_configs) = 1
    /\ sr_configs[1].context_params = <<K_status, K_customerId>>
    /\ ContextNames = {K_region, K_status}
    /\ subreports_result.queries[1].parameters =
          <<[name |-> K_status, value |-> JStr(<<"a", "c", "t", "i", "v", "e">>)]>>
    /\ "error" \notin DOMAIN subreports_result.subreports[1]

RECURSIVE SumOfReplies(_)
SumOfReplies(indices) ==
    IF indices = {} THEN 0
    ELSE LET i == CHOOSE x \in indices : TRUE
         IN  Len(source_replies[i].docs) + SumOfReplies(indices \ {i})

\* C16: for the list process_multiple_subreports returned, the summary has
\* total_subreports = number of specs, failed_subreports = number of failed
\* subreports, successful + failed = total, total_rows = sum of the row counts
\* of the successful subreports; making it sends no aggregation.
C16_SummaryCounts ==
    subreport_summary.status = "done" =>
        LET failed == {i \in 1..Len(sr_configs) : SubreportFails(i)}
        IN  /\ subreport_summary.total_subreports = Len(sr_configs)
            /\ subreport_summary.failed_subreports = Cardinality(failed)
            /\ subreport_summary.successful_subreports + subreport_summary.failed_subreports =
                   subreport_summary.total_subreports
            /\ subreport_summary.total_rows = SumOfReplies((1..Len(sr_configs)) \ failed)
            /\ source_calls = Cardinality({i \in 1..Len(sr_configs) :
                                              source_connected /\ ~ResolutionFails(i)})

\* C16 witness: the summary of two subreports, one failed and one with two rows
C16_Witness ==
    /\ subreport_summary.status = "done"
    /\ subreport_summary.total_subreports = 2
    /\ subreport_summary.failed_subreports = 1
    /\ subreport_summary.successful_subreports = 1
    /\ subreport_summary.total_rows = 2

(***************************************************************************)
(* Claims about generate_report and the shared client.                     *)
(***************************************************************************)
\* the clients MongoDBClient.connect created during request r
ClientsOf(r) == {c \in 1..Len(clients) : clients[c].created_by = r}

\* C17: when generate_report has returned or raised, every client that
\* connect() created during that call has been closed.
C17_ClientsClosedOnExit ==
    \A r \in Requests :
        gen_pc[r] = "done" => \A c \in ClientsOf(r) : ~clients[c].open

\* the steps of generate_report between a successful connect() and the end of
\* the finally clause
UsingConnection == {"main_query", "process", "subreports", "render", "finally"}

\* C18: while a request is between its connect() and its disconnect(), the
\* client it connected is still the one its generator uses and is still open,
\* whatever the other request does.
C18_NoInterference ==
    \A r \in Requests :
        gen_pc[r] \in UsingConnection =>
            /\ client_current = gen_client[r]
            /\ clients[gen_client[r]].open

\* validate_parameters raises for the parameters of request r
ValidationFails(r) ==
    ValidateParametersResult(gen_supplied[r], gen_config.parameters).status = "error"

\* _substitute_parameters raises for the main pipeline and the validated
\* parameters of request r
MainResolutionFails(r) ==
    /\ ~ValidationFails(r)
    /\ SubstituteParametersResult(
           gen_config.pipeline,
           ValidateParametersResult(gen_supplied[r], gen_config.parameters).validated).status = "error"

\* C19: a request whose parameters fail validation ends raised right after
\* validation, with no client created; a request whose main pipeline fails to
\* resolve never reaches the transformers, the subreports or the renderer and
\* ends raised; in both cases no aggregation is sent and nothing is rendered.
C19_FatalFailuresAbort ==
    \A r \in Requests :
        /\ (ValidationFails(r) /\ gen_pc[r] # "start") =>
               /\ gen_pc[r] = "done"
               /\ gen_outcome[r] = "raised"
               /\ gen_client[r] = NoClient
               /\ ClientsOf(r) = {}
               /\ gen_sent[r] = 0
               /\ ~gen_rendered[r]
        /\ MainResolutionFails(r) =>
               /\ gen_pc[r] \notin {"process", "subreports", "render"}
               /\ gen_pc[r] = "done" => gen_outcome[r] = "raised"
               /\ gen_sent[r] = 0
               /\ gen_subreports[r] = <<>>
               /\ ~gen_rendered[r]

\* C19 witness: one request raised at validation, the other connected, failed
\* to resolve its main pipeline and raised after the finally clause
C19_Witness ==
    \E r1, r2 \in Requests :
        /\ ValidationFails(r1)
        /\ gen_pc[r1] = "done"
        /\ gen_error[r1] = "validation"
        /\ MainResolutionFails(r2)
        /\ gen_pc[r2] = "done"
        /\ gen_client[r2] # NoClient
        /\ gen_error[r2] = "Invalid pipeline after parameter substitution"
        /\ gen_outcome[r2] = "raised"

(***************************************************************************)
(* Claim about min and max measures of the pivot transformer.              *)
(***************************************************************************)
\* the numeric values of the measure field over the records of one cell
Contributing(row_value, column_value) ==
    {FloatOf(data[i]["v"]) : i \in {j \in 1..Len(data) :
                                        /\ data[j]["a"] = row_value
                                        /\ data[j]["b"] = column_value
                                        /\ IsNumeric(data[j]["v"])}}

Minimum(S) == CHOOSE x \in S : \A y \in S : x <= y

Maximum(S) == CHOOSE x \in S : \A y \in S : x >= y

\* C20: for a min (max) measure, every cell of the pivot table with at least
\* one contributing record holds the minimum (maximum) of the numeric values
\* of the measure over the records of that cell.
C20_MinMaxByComparison ==
    (pivot_result.status = "ok" /\ pivot_config.measures[1].type \in ComparisonTypes) =>
        \A ri \in 1..Len(pivot_result.pivot_table) :
            LET row == pivot_result.pivot_table[ri]
            IN  \A c \in DOMAIN row.cells :
                    Contributing(row.row_key, c) # {} =>
                        CellGet(row.cells[c], "total") =
                            IF pivot_config.measures[1].type = "min"
                            THEN Minimum(Contributing(row.row_key, c))
                            ELSE Maximum(Contributing(row.row_key, c))

(***************************************************************************)
(* Claims about avg and count measures of the pivot transformer.           *)
(***************************************************************************)
\* the records of one cell whose measure field holds a number
ContributingRecords(row_value, column_value) ==
    {j \in 1..Len(data) : /\ GetRowKey(data[j], pivot_config.rows) = row_value
                          /\ GetColumnKey(data[j], pivot_config.columns) = column_value
                          /\ IsNumeric(data[j]["v"])}

RECURSIVE SumOfRecords(_)
SumOfRecords(indices) ==
    IF indices = {} THEN 0
    ELSE LET j == CHOOSE x \in indices : TRUE
         IN  FloatOf(data[j]["v"]) + SumOfRecords(indices \ {j})

\* C21: for an avg measure, every cell of the pivot table with at least one
\* contributing record holds the sum of the measure's numeric values divided
\* by the number of records observed for the cell (value * count = sum).
C21_AvgIsSumOverCount ==
    (pivot_result.status = "ok" /\ pivot_config.measures[1].type = "avg") =>
        \A ri \in 1..Len(pivot_result.pivot_table) :
            LET row == pivot_result.pivot_table[ri]
            IN  \A c \in DOMAIN row.cells :
                    ContributingRecords(row.row_key, c) # {} =>
                        CellGet(row.cells[c], "total")
                            * Cardinality(ContributingRecords(row.row_key, c)) =
                        SumOfRecords(ContributingRecords(row.row_key, c))

\* C22: for a count measure, every cell of the pivot table holds the number
\* of records contributing to that cell, whatever the values of the measure
\* field.
C22_CountIsNumberOfRecords ==
    (pivot_result.status = "ok" /\ pivot_config.measures[1].type = "count") =>
        \A ri \in 1..Len(pivot_result.pivot_table) :
            LET row == pivot_result.pivot_table[ri]
            IN  \A c \in DOMAIN row.cells :
                    CellGet(row.cells[c], "total") =
                        Cardinality(ContributingRecords(row.row_key, c))

(***************************************************************************)
(* Claims about the dimension keys of the pivot transformer.               *)
(***************************************************************************)
\* the key of a record in a dimension of several field paths, a missing
\* component replaced by the empty placeholder
PlaceholderKey(row, fields) ==
    [j \in 1..Len(fields) |->
        IF GetNestedValue(row, fields[j]) # None THEN GetNestedValue(row, fields[j]) ELSE Str("")]

\* the records whose placeholder keys are those of one cell
RecordsOfPlaceholderCell(row_value, column_value) ==
    {j \in 1..Len(data) : /\ PlaceholderKey(data[j], pivot_config.rows) = row_value
                          /\ PlaceholderKey(data[j], pivot_config.columns) = column_value
                          /\ IsNumeric(data[j]["v"])}

\* C23: with several field paths per dimension, the key under which a record
\* is accumulated is the placeholder tuple that was collected: it belongs to
\* the distinct row (column) keys, and the cell of the placeholder keys holds
\* the sum of the measure over the records with these keys.
C23_PlaceholderKeysAgree ==
    (pivot_result.status = "ok" /\ pivot_config.measures[1].type = "sum") =>
        /\ Len(pivot_config.rows) > 1 =>
               \A j \in 1..Len(data) :
                   GetRowKey(data[j], pivot_config.rows) \in Range(pivot_result.row_values)
        /\ Len(pivot_config.columns) > 1 =>
               \A j \in 1..Len(data) :
                   GetColumnKey(data[j], pivot_config.columns) \in Range(pivot_result.column_values)
        /\ (Len(pivot_config.rows) > 1 /\ Len(pivot_config.columns) > 1) =>
               \A ri \in 1..Len(pivot_result.pivot_table) :
                   LET row == pivot_result.pivot_table[ri]
                   IN  \A c \in DOMAIN row.cells :
                           CellGet(row.cells[c], "total") =
                               SumOfRecords(RecordsOfPlaceholderCell(row.row_key, c))

\* C24: transform_pivot_data returns a result for every list of records,
\* whatever the types of the dimension values.
C24_DimensionsNeverFail ==
    pivot_result.status # "error"

(***************************************************************************)
(* Claims about token boundaries and date markers of the query assembler.  *)
(***************************************************************************)
\* the bindings in the opposite insertion order
Reverse(params) == [i \in 1..Len(params) |-> params[Len(params) + 1 - i]]

\* C25: the resolved descriptor does not depend on the order in which the
\* parameters are processed (text a parameter's value brought in is never
\* substituted by another parameter).
C25_OrderIndependent ==
    subst_result.status # "pending" =>
        subst_result = SubstituteParametersResult(pipeline, Reverse(parameters))

K_date == <<"$", "d", "a", "t", "e">>

\* an ISO-8601 text with exactly one UTC designator: a final Z and no numeric offset
OneUtcDesignator(s) ==
    /\ Len(s) > 0
    /\ s[Len(s)] = "Z"
    /\ \A k \in 1..Len(s) : s[k] # "+"
    /\ \A k \in 1..(Len(s) - 1) : s[k] # "Z"

\* C26: a datetime bound to the field authored as "{{status}}" resolves to
\* {"$date": s} where s carries exactly one UTC designator, for naive and for
\* timezone-aware values.
C26_DateMarkerOneDesignator ==
    \A i \in 1..Len(parameters) :
        (/\ subst_result.status = "ok"
         /\ parameters[i].name = K_status
         /\ parameters[i].value.t = "datetime"
         /\ StatusField(pipeline) = JStr(Token(K_status))) =>
            /\ StatusField(subst_result.value).t = "obj"
            /\ Len(StatusField(subst_result.value).kids) = 1
            /\ StatusField(subst_result.value).kids[1].s = K_date
            /\ Lookup(StatusField(subst_result.value), K_date).t = "str"
            /\ OneUtcDesignator(Lookup(StatusField(subst_result.value), K_date).s)

(***************************************************************************)
(* Claim about required parameters with a default.                         *)
(***************************************************************************)
\* C29: a declared parameter that is required, absent from the supplied values
\* and has a non-null default does not make validate_parameters fail as
\* missing; when the call returns the parameter is bound to its default.
C29_RequiredWithDefaultBound ==
    \A i \in 1..Len(parameter_definitions) :
        LET param_def == parameter_definitions[i]
        IN  (/\ validate_result.status # "pending"
             /\ param_def.required
             /\ param_def.name \notin DOMAIN supplied_parameters
             /\ param_def.default # JNull) =>
                /\ ~(/\ validate_result.status = "error"
                     /\ validate_result.error.kind = "missing"
                     /\ validate_result.error.param = param_def.name)
                /\ validate_result.status = "ok" =>
                       BoundValue(param_def.name) = param_def.default

(***************************************************************************)
(* Claim about the parent context generate_report hands to subreports.     *)
(***************************************************************************)
\* C27: every context parameter name a subreport declares that is bound in
\* the validated parameters of the request is passed with its bound value to
\* the query of that subreport.
C27_BoundParametersReachSubreports ==
    \A r \in Requests :
        \A i \in 1..Len(gen_subreports[r]) :
            "context_params" \in DOMAIN gen_subreports[r][i] =>
                \A k \in 1..Len(gen_validated[r]) :
                    gen_validated[r][k].name \in Range(gen_config.subreports[i].context_params) =>
                        gen_validated[r][k] \in Range(gen_subreports[r][i].context_params)

(***************************************************************************)
(* Claim about the locale of the API's generator.                          *)
(***************************************************************************)
\* C28: every request is served by a generator of the locale it asked for,
\* whatever the requests before it asked for.
C28_GeneratorHasRequestedLocale ==
    \A i \in 1..Len(api_requests) : api_requests[i].used = api_requests[i].locale

(***************************************************************************)
(* Claim about the connected flag of MongoDBClient.                        *)
(***************************************************************************)
\* the last call of connect() returned True and no disconnect() came after it
LastConnectHolds ==
    \E i \in 1..Len(client_calls) :
        /\ client_calls[i].op = "connect"
        /\ client_calls[i].outcome = "True"
        /\ \A j \in (i + 1)..Len(client_calls) :
               client_calls[j].op \notin {"connect", "disconnect"}

\* C30: the connected flag is true only if a client handle exists and the
\* last connect() succeeded with no disconnect() since; a call of
\* execute_aggregation or execute_find made while the flag is false raises
\* ConnectionError and sends no query.
C30_ConnectedFlagGuardsQueries ==
    /\ client_connected => (client_current # NoClient /\ LastConnectHolds)
    /\ \A i \in 1..Len(client_calls) :
           (/\ client_calls[i].op \in {"execute_aggregation", "execute_find"}
            /\ ~client_calls[i].connected_before) =>
               /\ client_calls[i].outcome = "ConnectionError"
               /\ client_calls[i].sent = 0

\* C30 witness: connect() succeeded, a query was sent, disconnect() was called
\* and the next query raised ConnectionError without being sent
C30_Witness ==
    /\ Len(client_calls) = 4
    /\ client_calls[1].op = "connect" /\ client_calls[1].outcome = "True"
    /\ client_calls[2].op = "execute_aggregation" /\ client_calls[2].sent = 1
    /\ client_calls[3].op = "disconnect"
    /\ client_calls[4].op = "execute_find"
    /\ client_calls[4].outcome = "ConnectionError"
    /\ client_calls[4].sent = 0
    /\ ~client_connected

====
